---- MODULE Spec2Model ----
(***************************************************************************)
(* Verification model of the mod-content engine of the launcher:           *)
(*   - ModDownloadService::sync_mods_to_profile        SpecSync            *)
(*   - the destination of an override entry            SpecPath            *)
(*   - find_best_matching_file, check_mod_updates_bulk,                    *)
(*     check_curseforge_updates_only                   SpecUpd             *)
(*   - download_mods_to_cache, download_pack_mods_to_cache   SpecDl        *)
(*   - the units and the join of extract_curseforge_overrides SpecExtract  *)
(*   - a download call and an extract call side by side      SpecPool      *)
(*   - check_mod_updates_unified                       SpecUnified         *)
(*   - ModloaderFactory::resolve_loader_version        SpecLoader          *)
(*   - switch_modpack_version                          SpecSwitch          *)
(*   - determine_memory_settings                       SpecMemory          *)
(*   - resolve_curseforge_manifest_files               SpecManifest        *)
(*   - the HTTP calls of the CurseForge adapter        SpecApi             *)
(*   - launch_profile, abort_profile_launch            SpecLaunch          *)
(*   - extract_curseforge_overrides, fair scheduling   SpecExtractFair     *)
(* Each operation has its own specification; the variables of the other    *)
(* operations stay at their idle value.                                    *)
(***************************************************************************)
EXTENDS Integers, Sequences, FiniteSets, TLC

VARIABLES
    \* ---- sync_mods_to_profile ----
    dir,            \* profile mods directory: file name -> content (0 = no such file)
    cache,          \* mod cache: cache path -> content (0 = no readable file)
    target_mods,    \* the &[TargetMod] argument: sequence of [filename, cache_path]
    locked,         \* file names of the directory whose removal fails (I/O error)
    syncPc,         \* position inside sync_mods_to_profile
    mods_to_remove, \* names still to be removed by the running call
    mods_to_add,    \* names still to be copied by the running call
    dir0,           \* the directory as it was when the running call listed it
    removed,        \* names the running call has removed
    copied,         \* names the running call has copied
    syncRuns,       \* number of calls started
    prevOk,         \* the call before the running one returned Ok
    \* ---- extract_curseforge_overrides: one archive entry's destination ----
    windows,        \* the build target: cfg!(windows)
    entry_filename, \* the archive entry's name, a sequence of characters
    pathPc,         \* "listing", "not_override", "skipped" or "queued"
    final_dest_path, \* the destination computed for a queued entry
    \* ---- check_mod_updates_unified, CurseForge side ----
    uReq,           \* the caller's request: game_versions, loaders, fingerprints
    uResp,          \* the fingerprint API's answer (CurseForgeFingerprintResponse)
    uMods,          \* project ids in the answer of get_mods_by_ids
    uPc,            \* position inside check_curseforge_updates_only
    uBest,          \* per processed match: the kind, its index and the best file found
    uUpdates,       \* Vec<CurseForgeUpdateInfo> built by check_mod_updates_bulk
    uResult,        \* the map returned by check_curseforge_updates_only
    \* ---- download_mods_to_cache / download_pack_mods_to_cache ----
    service,        \* "mods" (ModDownloadService) or "pack" (NoriskPackDownloadService)
    concurrent_downloads, \* the service's concurrent_downloads field
    profile_mods,   \* the entries of the profile (or of the pack definition)
    dlCache,        \* mod cache directory: file name -> content (0 = no such file)
    dlPc,           \* "idle", "running", "ok" or "err"
    dlTasks,        \* per entry: "none", "queued", "fetching", "ok" or "err"
    dlResults,      \* results in the order buffer_unordered yields them
    dlErr,          \* the entry whose error the call returned (0 = none)
    dlFetched,      \* entries for which the running call issued a network fetch
    dlCache0,       \* the cache as it was when the running call began
    dlCalls,        \* number of calls started
    \* extract_curseforge_overrides (one call) and the permit pool
    io_permits,     \* size of state.io_semaphore
    io_semaphore,   \* permits of state.io_semaphore that are free
    is_entry_dir,   \* per override entry that gets a unit: is it a directory
    exPc,           \* "idle", "listing", "joining", "ok" or "err"
    extraction_tasks, \* per spawned unit: "waiting", "io", "ok", "err", "panic"
    exDisk,         \* units whose destination has been written
    exErr,          \* what the call returned: [unit, kind], unit 0 = nothing
    \* ---- check_mod_updates_unified ----
    uHashReq,       \* request.hashes, hash_platforms and hash_fingerprints
    mrResp,         \* what modrinth::check_bulk_updates answers: "err" or hash -> version
    mrOut,          \* result of check_modrinth_updates_only: "pending", "err" or a map
    uniPc,          \* "idle", "joining" or "ok"
    all_updates,    \* the map check_mod_updates_unified returns
    \* ---- resolve_loader_version ----
    rlProfile,      \* the profile whose loader version is resolved
    rlMinecraft,    \* minecraft_version
    rlPack,         \* the selected pack and what the pack configuration holds for it
    rlPc,           \* "idle" | "called" | "returned"
    rlResult,       \* the ResolvedLoaderVersion returned
    \* ---- switch_modpack_version ----
    swProfile,      \* mods of the profile when the switch is called
    swManifest,     \* mods the downloaded pack's manifest yields
    swLocal,        \* profile.mods of the local copy of the profile
    swNew,          \* the local mods
    swPc,           \* position in switch_modpack_version
    swSaved,        \* what update_profile was called with
    swGame,         \* game_version of the stored profile before the call
    swManifestGame, \* minecraft version of the downloaded pack
    swLocalGame,    \* game_version of the local copy of the profile
    swFailedAt,     \* the step whose error the call returned, "none" if none
    swOverridesOnDisk, \* whether the call wrote override files
    \* ---- determine_memory_settings ----
    system_ram_mb,  \* what get_system_ram_mb returns
    recommended_ram_mb, \* Option<u64>: the manifest's recommended RAM
    memPc,          \* "idle" | "called" | "returned"
    memory_settings,\* the MemorySettings returned
    \* ---- resolve_curseforge_manifest_files ----
    mfPlatform,     \* the projects and files the platform knows
    mfFiles,        \* manifest.files: sequence of [project_id, file_id, required]
    mfMods,         \* mods_response.data: project ids in the order of the answer
    mfDetails,      \* file ids in the answer of get_files_by_ids
    mfPc,           \* position in resolve_curseforge_manifest_files
    mfCalls,        \* number of bulk project and bulk file lookups made
    mfResult,       \* the Vec<Mod> returned
    \* ---- CurseForge adapter network calls ----
    apiFn,          \* the adapter function called
    apiStatus,      \* HTTP status of the response
    apiBodyReadable, \* whether the body arrives in full
    apiBodyDecodes, \* whether the body is JSON of the expected shape
    apiPc,          \* position in the call
    apiEvents,      \* what the call did with the response, in order
    apiResult,      \* "none" | "parsed" | the kind of error returned
    \* ---- launch_profile / abort_profile_launch ----
    lpId,           \* profile id of each launch_profile call, 0 before the call
    lpPc,           \* position of each launch_profile call
    lpTask,         \* position of the install task each call spawned
    launching_processes, \* process manager, profile id to the task handle stored for it, 0 for none
    lpAbort         \* result of the latest abort_profile_launch

syncVars == <<dir, cache, target_mods, locked, syncPc, mods_to_remove, mods_to_add,
              dir0, removed, copied, syncRuns, prevOk>>

pathVars == <<windows, entry_filename, pathPc, final_dest_path>>

updVars == <<uReq, uResp, uMods, uPc, uBest, uUpdates, uResult>>

dlVars == <<service, concurrent_downloads, profile_mods, dlCache, dlPc, dlTasks,
            dlResults, dlErr, dlFetched, dlCache0, dlCalls>>

exVars == <<io_permits, io_semaphore, is_entry_dir, exPc, extraction_tasks,
            exDisk, exErr>>
uniVars == <<uHashReq, mrResp, mrOut, uniPc, all_updates>>
loaderVars == <<rlProfile, rlMinecraft, rlPack, rlPc, rlResult>>
switchVars == <<swProfile, swManifest, swLocal, swNew, swPc, swSaved, swGame, swManifestGame,
                swLocalGame, swFailedAt, swOverridesOnDisk>>
memoryVars == <<system_ram_mb, recommended_ram_mb, memPc, memory_settings>>
manifestVars == <<mfPlatform, mfFiles, mfMods, mfDetails, mfPc, mfCalls, mfResult>>
apiVars == <<apiFn, apiStatus, apiBodyReadable, apiBodyDecodes, apiPc, apiEvents, apiResult>>
launchVars == <<lpId, lpPc, lpTask, launching_processes, lpAbort>>
vars == <<syncVars, pathVars, updVars, dlVars, exVars, uniVars, loaderVars, switchVars, memoryVars, manifestVars, apiVars, launchVars>>

notSyncVars == <<pathVars, updVars, dlVars, exVars, uniVars, loaderVars, switchVars, memoryVars, manifestVars, apiVars, launchVars>>
notPathVars == <<syncVars, updVars, dlVars, exVars, uniVars, loaderVars, switchVars, memoryVars, manifestVars, apiVars, launchVars>>
notUpdVars == <<syncVars, pathVars, dlVars, exVars, uniVars, loaderVars, switchVars, memoryVars, manifestVars, apiVars, launchVars>>
notDlVars == <<syncVars, pathVars, updVars, exVars, uniVars, loaderVars, switchVars, memoryVars, manifestVars, apiVars, launchVars>>
notExVars == <<syncVars, pathVars, updVars, dlVars, uniVars, loaderVars, switchVars, memoryVars, manifestVars, apiVars, launchVars>>
notPoolVars == <<syncVars, pathVars, updVars, uniVars, loaderVars, switchVars, memoryVars, manifestVars, apiVars, launchVars>>
notUniVars == <<syncVars, pathVars, updVars, dlVars, exVars, loaderVars, switchVars, memoryVars, manifestVars, apiVars, launchVars>>
notUniUpdVars == <<syncVars, pathVars, dlVars, exVars, loaderVars, switchVars, memoryVars, manifestVars, apiVars, launchVars>>
notLoaderVars == <<syncVars, pathVars, updVars, dlVars, exVars, uniVars, switchVars, memoryVars, manifestVars, apiVars, launchVars>>
notSwitchVars == <<syncVars, pathVars, updVars, dlVars, exVars, uniVars, loaderVars, memoryVars, manifestVars, apiVars, launchVars>>
notMemoryVars == <<syncVars, pathVars, updVars, dlVars, exVars, uniVars, loaderVars, switchVars, manifestVars, apiVars, launchVars>>
notManifestVars == <<syncVars, pathVars, updVars, dlVars, exVars, uniVars, loaderVars, switchVars, memoryVars, apiVars, launchVars>>
notApiVars == <<syncVars, pathVars, updVars, dlVars, exVars, uniVars, loaderVars, switchVars, memoryVars, manifestVars, launchVars>>
notLaunchVars == <<syncVars, pathVars, updVars, dlVars, exVars, uniVars, loaderVars, switchVars, memoryVars, manifestVars, apiVars>>

(***************************************************************************)
(* Bounds                                                                  *)
(***************************************************************************)
MaxTargetMods == 2
MaxSyncRuns == 2
MaxLatestFiles == 2 \* files in one match's latestFiles
MaxMatches == 2     \* exact (and partial) matches in one fingerprint answer
MaxProfileMods == 2 \* entries of the profile handed to download_mods_to_cache
MaxDlCalls == 2     \* calls of download_mods_to_cache in a row
MaxPathLen == 5     \* characters of an entry name after the overrides prefix
MaxOverrideEntries == 2 \* override entries of the archive that get a unit
MaxIoPermits == 2   \* largest size of state.io_semaphore
MaxPolicyEntries == 2   \* most by_minecraft entries of a loader policy
MaxSwitchMods == 2   \* most mods of the profile and of the new manifest
MaxSystemRam == 40   \* largest system RAM, in units of 512 MB
MaxRecommendedRam == 36   \* largest recommended RAM, in units of 512 MB
MaxManifestFiles == 2   \* most file references of a CurseForge manifest
MaxLaunches == 2        \* most launch_profile calls

(***************************************************************************)
(* sync_mods_to_profile                                                    *)
(***************************************************************************)
FileNames == {"a.jar", "b.jar", "c.jar"}
CachePaths == {"cache/x.jar", "cache/y.jar"}
OldContent == 1     \* content of a file already in the profile directory
CachedContent == 2  \* content of a file in the cache

TargetMod == [filename : FileNames, cache_path : CachePaths]

SeqsUpTo(S, n) == UNION {[1..k -> S] : k \in 0..n}

\* required_mods: HashMap<String, PathBuf> collected from the target mods in
\* order, so a later entry with the same filename replaces the earlier one.
RequiredMods(tms) ==
    [f \in {tms[i].filename : i \in DOMAIN tms} |->
        LET last == CHOOSE i \in DOMAIN tms :
                        /\ tms[i].filename = f
                        /\ \A j \in DOMAIN tms : tms[j].filename = f => j <= i
        IN tms[last].cache_path]

RequiredFilenames(tms) == DOMAIN RequiredMods(tms)

\* existing_filenames: the regular files found by read_dir
ExistingFilenames(d) == {f \in DOMAIN d : d[f] # 0}

ModsToRemoveNone(existing, required) == {}

ModsToRemove(existing, required) == existing \ required

ModsToAddAll(existing, required) == required

ModsToAdd(existing, required) == required \ existing

SyncBegin ==
    /\ syncPc \in {"idle", "ok", "err"}
    /\ syncRuns < MaxSyncRuns
    /\ syncRuns' = syncRuns + 1
    /\ prevOk' = (syncPc = "ok")
    /\ dir0' = dir
    /\ mods_to_remove' = ModsToRemove(ExistingFilenames(dir), RequiredFilenames(target_mods))
    /\ mods_to_add' = ModsToAdd(ExistingFilenames(dir), RequiredFilenames(target_mods))
    /\ removed' = {}
    /\ copied' = {}
    /\ syncPc' = "removing"
    /\ UNCHANGED <<dir, cache, target_mods, locked>>

\* a removal loop that logs a failed remove and goes on
SyncRemoveSkipLocked(f) ==
    /\ syncPc = "removing"
    /\ f \in mods_to_remove
    /\ IF f \in locked
       THEN /\ mods_to_remove' = mods_to_remove \ {f}
            /\ UNCHANGED <<dir, removed, syncPc>>
       ELSE /\ dir' = [dir EXCEPT ![f] = 0]
            /\ mods_to_remove' = mods_to_remove \ {f}
            /\ removed' = removed \cup {f}
            /\ UNCHANGED syncPc
    /\ UNCHANGED <<cache, target_mods, locked, mods_to_add, dir0, copied, syncRuns, prevOk>>

\* one iteration of `for filename in &mods_to_remove` (HashSet order: any element)
SyncRemove(f) ==
    /\ syncPc = "removing"
    /\ f \in mods_to_remove
    /\ IF f \in locked
       THEN /\ syncPc' = "err"
            /\ UNCHANGED <<dir, mods_to_remove, removed>>
       ELSE /\ dir' = [dir EXCEPT ![f] = 0]
            /\ mods_to_remove' = mods_to_remove \ {f}
            /\ removed' = removed \cup {f}
            /\ UNCHANGED syncPc
    /\ UNCHANGED <<cache, target_mods, locked, mods_to_add, dir0, copied, syncRuns, prevOk>>

SyncRemoveDone ==
    /\ syncPc = "removing"
    /\ mods_to_remove = {}
    /\ syncPc' = "adding"
    /\ UNCHANGED <<dir, cache, target_mods, locked, mods_to_remove, mods_to_add,
                   dir0, removed, copied, syncRuns, prevOk>>

\* a failed copy is logged and the loop goes on to the next file
SyncCopySkip(f) ==
    /\ syncPc = "adding"
    /\ f \in mods_to_add
    /\ LET cache_path == RequiredMods(target_mods)[f]
       IN IF cache[cache_path] = 0
          THEN /\ mods_to_add' = mods_to_add \ {f}
               /\ UNCHANGED <<dir, copied, syncPc>>
          ELSE /\ dir' = [dir EXCEPT ![f] = cache[cache_path]]
               /\ mods_to_add' = mods_to_add \ {f}
               /\ copied' = copied \cup {f}
               /\ UNCHANGED syncPc
    /\ UNCHANGED <<cache, target_mods, locked, mods_to_remove, dir0, removed, syncRuns, prevOk>>

\* one iteration of `for filename in &mods_to_add`
SyncCopy(f) ==
    /\ syncPc = "adding"
    /\ f \in mods_to_add
    /\ IF f \notin DOMAIN RequiredMods(target_mods)
       THEN \* "Cache path not found for required mod"
            /\ syncPc' = "err"
            /\ UNCHANGED <<dir, mods_to_add, copied>>
       ELSE LET cache_path == RequiredMods(target_mods)[f]
            IN IF cache[cache_path] = 0
               THEN \* fs::copy fails: AppError::Io
                    /\ syncPc' = "err"
                    /\ UNCHANGED <<dir, mods_to_add, copied>>
               ELSE /\ dir' = [dir EXCEPT ![f] = cache[cache_path]]
                    /\ mods_to_add' = mods_to_add \ {f}
                    /\ copied' = copied \cup {f}
                    /\ UNCHANGED syncPc
    /\ UNCHANGED <<cache, target_mods, locked, mods_to_remove, dir0, removed, syncRuns, prevOk>>

SyncReturnOk ==
    /\ syncPc = "adding"
    /\ mods_to_add = {}
    /\ syncPc' = "ok"
    /\ UNCHANGED <<dir, cache, target_mods, locked, mods_to_remove, mods_to_add,
                   dir0, removed, copied, syncRuns, prevOk>>

IdleSync ==
    /\ dir = [f \in FileNames |-> 0]
    /\ cache = [p \in CachePaths |-> 0]
    /\ target_mods = <<>>
    /\ locked = {}
    /\ syncPc = "idle"
    /\ mods_to_remove = {}
    /\ mods_to_add = {}
    /\ dir0 = dir
    /\ removed = {}
    /\ copied = {}
    /\ syncRuns = 0
    /\ prevOk = FALSE

(***************************************************************************)
(* extract_curseforge_overrides: destination of one archive entry.         *)
(* A path is a sequence of characters; "mods", "custom_mods", "overrides"  *)
(* and "T" (the name of the instance directory) stand for those words and  *)
(* hold no separator, dot or drive letter.                                 *)
(***************************************************************************)
PathChars == {"/", "\\", ".", ":", "a", "mods"}
DriveLetters == {"a"}
\* sanitize_filename's ILLEGAL_RE  [/\?<>\\:\*\|":]
IllegalChars == {"/", "\\", ":", "?", "<", ">", "*", "|", "\""}

Separators(win) == IF win THEN {"/", "\\"} ELSE {"/"}
MainSeparator(win) == IF win THEN "\\" ELSE "/"

\* manifest.overrides.as_deref().unwrap_or("overrides")
overrides_dir == <<"overrides">>
overrides_prefix == overrides_dir \o <<"/">>

\* calculate_instance_path_for_profile: an absolute directory
target_dir(win) == IF win THEN <<"a", ":", "\\", "T">> ELSE <<"/", "T">>

StartsWith(s, pre) == Len(s) >= Len(pre) /\ SubSeq(s, 1, Len(pre)) = pre

RECURSIVE SplitOn(_, _)
\* the pieces of s between separator characters, empty pieces included
SplitOn(s, seps) ==
    IF s = <<>> THEN << <<>> >>
    ELSE LET rest == SplitOn(Tail(s), seps)
         IN IF Head(s) \in seps
            THEN << <<>> >> \o rest
            ELSE << <<Head(s)>> \o Head(rest) >> \o Tail(rest)

\* std::path on Windows: length of a disk ("a:") or UNC ("\\server\share")
\* prefix; a Unix path has no prefix
PrefixLen(s, win) ==
    IF ~win THEN 0
    ELSE IF Len(s) >= 2 /\ s[1] \in Separators(win) /\ s[2] \in Separators(win)
    THEN LET parts == SplitOn(SubSeq(s, 3, Len(s)), Separators(win))
             server == parts[1]
             share == IF Len(parts) >= 2 THEN parts[2] ELSE <<>>
         IN 2 + Len(server) + (IF Len(share) > 0 THEN 1 + Len(share) ELSE 0)
    ELSE IF Len(s) >= 2 /\ s[1] \in DriveLetters /\ s[2] = ":" THEN 2
    ELSE 0

\* std::path::Path::components: Prefix, RootDir, a leading CurDir, ParentDir
\* and Normal components; repeated separators and inner "." are dropped
Components(s, win) ==
    LET n == PrefixLen(s, win)
        body == SubSeq(s, n + 1, Len(s))
        rooted == body # <<>> /\ body[1] \in Separators(win)
        parts == SplitOn(body, Separators(win))
        prefix == IF n > 0 THEN << [kind |-> "Prefix", str |-> SubSeq(s, 1, n)] >> ELSE <<>>
        root == IF rooted THEN << [kind |-> "RootDir", str |-> <<>>] >> ELSE <<>>
        curdir == IF ~rooted /\ n = 0 /\ parts[1] = <<".">>
                  THEN << [kind |-> "CurDir", str |-> <<".">>] >> ELSE <<>>
        named == SelectSeq(parts, LAMBDA g : g # <<>> /\ g # <<".">>)
    IN prefix \o root \o curdir \o
       [i \in 1..Len(named) |->
           [kind |-> IF named[i] = <<".", ".">> THEN "ParentDir" ELSE "Normal",
            str |-> named[i]]]

RECURSIVE StripTrailingDots(_)
\* sanitize_filename's WINDOWS_TRAILING_RE  [\. ]+$
StripTrailingDots(s) ==
    IF s # <<>> /\ s[Len(s)] \in {".", " "}
    THEN StripTrailingDots(SubSeq(s, 1, Len(s) - 1))
    ELSE s

\* a sanitizer that lacks the rule for names made of dots only
SanitizeKeepsDots(name, win) ==
    LET legal == SelectSeq(name, LAMBDA c : c \notin IllegalChars)
    IN IF win THEN StripTrailingDots(legal) ELSE legal

\* sanitize_filename::sanitize with the default options: illegal characters
\* are removed, then a name that consists of dots only becomes empty, then
\* (Windows build) trailing dots and spaces are cut
Sanitize(name, win) ==
    LET legal == SelectSeq(name, LAMBDA c : c \notin IllegalChars)
        unreserved == IF legal # <<>> /\ \A i \in DOMAIN legal : legal[i] = "."
                      THEN <<>> ELSE legal
    IN IF win THEN StripTrailingDots(unreserved) ELSE unreserved

\* PathBuf::push: an absolute path (or one with a prefix) replaces the buffer
PathPush(buf, p, win) ==
    IF p # <<>> /\ (p[1] \in Separators(win) \/ PrefixLen(p, win) > 0) THEN p
    ELSE IF buf = <<>> THEN p
    ELSE IF buf[Len(buf)] \in Separators(win) THEN buf \o p
    ELSE buf \o <<MainSeparator(win)>> \o p

RECURSIVE CollectPathBuf(_, _)
\* .collect::<PathBuf>() of a sequence of component strings
CollectPathBuf(comps, win) ==
    IF comps = <<>> THEN <<>>
    ELSE PathPush(CollectPathBuf(SubSeq(comps, 1, Len(comps) - 1), win),
                  comps[Len(comps)], win)

\* the filter_map over the components of path_after_prefix
SanitizedComponents(path_after_prefix, win) ==
    LET comps == Components(path_after_prefix, win)
        kept == SelectSeq(comps, LAMBDA c : c.kind = "Normal" /\ Sanitize(c.str, win) # <<>>)
    IN [i \in 1..Len(kept) |-> Sanitize(kept[i].str, win)]

SanitizedRelativePath(path_after_prefix, win) ==
    CollectPathBuf(SanitizedComponents(path_after_prefix, win), win)

\* the redirect of "mods/..." to "custom_mods/..." and the join with target_dir
FinalDestPath(sanitized_relative_path, win) ==
    IF \/ StartsWith(sanitized_relative_path, <<"mods", "/">>)
       \/ StartsWith(sanitized_relative_path, <<"mods", "\\">>)
    THEN PathPush(target_dir(win),
                  <<"custom_mods">> \o SubSeq(sanitized_relative_path, 2,
                                              Len(sanitized_relative_path)), win)
    ELSE PathPush(target_dir(win), sanitized_relative_path, win)

\* the body of `for index in 0..num_entries` up to the point where the unit
\* of work is queued
ListEntry ==
    /\ pathPc = "listing"
    /\ IF ~StartsWith(entry_filename, overrides_prefix)
       THEN pathPc' = "not_override" /\ UNCHANGED final_dest_path
       ELSE LET path_after_prefix ==
                    SubSeq(entry_filename, Len(overrides_prefix) + 1, Len(entry_filename))
                rel == SanitizedRelativePath(path_after_prefix, windows)
            IN IF path_after_prefix = <<>> \/ rel = <<>>
               THEN pathPc' = "skipped" /\ UNCHANGED final_dest_path
               ELSE /\ pathPc' = "queued"
                    /\ final_dest_path' = FinalDestPath(rel, windows)
    /\ UNCHANGED <<windows, entry_filename>>

IdlePath ==
    /\ windows = FALSE
    /\ entry_filename = <<>>
    /\ pathPc = "idle"
    /\ final_dest_path = <<>>

(***************************************************************************)
(* CurseForge update check: find_best_matching_file,                       *)
(* check_mod_updates_bulk and check_curseforge_updates_only                *)
(***************************************************************************)
\* strings found in a CurseForge file's gameVersions array
GameVersionTags == {"1.21", "1.20.1", "Fabric", "Forge", "NeoForge", "Quilt"}

\* the loader words that version.to_lowercase() contains
LoaderWordsIn(tag) ==
    CASE tag = "Fabric" -> {"fabric"}
      [] tag = "Forge" -> {"forge"}
      [] tag = "NeoForge" -> {"forge", "neoforge"}
      [] tag = "Quilt" -> {"quilt"}
      [] OTHER -> {}

\* one step of the filter_map of extract_loaders_from_game_versions
LoaderOfTag(tag) ==
    LET w == LoaderWordsIn(tag)
    IN IF "forge" \in w /\ "neoforge" \notin w THEN {"forge"}
       ELSE IF "fabric" \in w THEN {"fabric"}
       ELSE IF "quilt" \in w THEN {"quilt"}
       ELSE IF "neoforge" \in w THEN {"neoforge"}
       ELSE IF "liteloader" \in w THEN {"liteloader"}
       ELSE IF "cauldron" \in w THEN {"cauldron"}
       ELSE {}

extract_loaders_from_game_versions(game_versions) ==
    UNION {LoaderOfTag(t) : t \in game_versions}

extract_game_versions_from_mixed(game_versions) ==
    {t \in game_versions : LoaderWordsIn(t) = {}}

\* a selection that looks at the game version only
FileMatchesVersionOnly(file, game_versions, loaders) ==
    \E gv \in game_versions : gv \in file.gameVersions

\* a file is accepted when it has one of the game versions and one of the loaders
FileMatches(file, game_versions, loaders) ==
    LET file_loaders == extract_loaders_from_game_versions(file.gameVersions)
        has_matching_game_version == \E gv \in game_versions : gv \in file.gameVersions
        has_matching_loader == \E l \in loaders : l \in file_loaders
    IN has_matching_game_version /\ has_matching_loader

NoFile == [id |-> 0, fileDate |-> 0, gameVersions |-> {}]

\* the newest file of the list, whatever it is compatible with
find_newest_file(files, game_versions, loaders) ==
    IF files = <<>> THEN NoFile
    ELSE files[CHOOSE i \in DOMAIN files :
                  \A j \in DOMAIN files :
                      \/ files[j].fileDate < files[i].fileDate
                      \/ (files[j].fileDate = files[i].fileDate /\ i <= j)]

RECURSIVE FindFrom(_, _, _, _)
FindFrom(files, i, game_versions, loaders) ==
    IF i > Len(files) THEN NoFile
    ELSE IF FileMatches(files[i], game_versions, loaders) THEN files[i]
    ELSE FindFrom(files, i + 1, game_versions, loaders)

\* find_best_matching_file: the first accepted file, NoFile for None
find_best_matching_file(files, game_versions, loaders) ==
    IF files = <<>> THEN NoFile ELSE FindFrom(files, 1, game_versions, loaders)

UpdateInfo(original_fingerprint, match, best_file) ==
    [original_fingerprint |-> original_fingerprint,
     fingerprint |-> match.id,
     project_id |-> match.id,
     file_id |-> best_file.id,
     game_versions |-> best_file.gameVersions,
     file_date |-> best_file.fileDate]

\* an exact-match rule that looks at the dates only
ExactMatchUpdateDateOnly(resp, index, mods, game_versions, loaders) ==
    LET fingerprint_match == resp.exact_matches[index]
        best_file == find_best_matching_file(fingerprint_match.latest_files,
                                             game_versions, loaders)
    IN IF fingerprint_match.id \notin mods THEN <<>>
       ELSE IF best_file = NoFile THEN <<>>
       ELSE IF best_file.fileDate > fingerprint_match.file.fileDate
       THEN << UpdateInfo(resp.exact_fingerprints[index], fingerprint_match, best_file) >>
       ELSE <<>>

\* one iteration of the loop over exact_matches: <<>> or one update
ExactMatchUpdate(resp, index, mods, game_versions, loaders) ==
    LET fingerprint_match == resp.exact_matches[index]
        best_file == find_best_matching_file(fingerprint_match.latest_files,
                                             game_versions, loaders)
        installed_file == fingerprint_match.file
        date_newer == best_file.fileDate > installed_file.fileDate
        id_different == best_file.id # installed_file.id
    IN IF fingerprint_match.id \notin mods THEN <<>>
       ELSE IF best_file = NoFile THEN <<>>
       ELSE IF date_newer \/ id_different
       THEN << UpdateInfo(resp.exact_fingerprints[index], fingerprint_match, best_file) >>
       ELSE <<>>

\* a partial-match rule that compares with the matched file as the exact rule does
PartialMatchUpdateCompared(resp, index, mods, game_versions, loaders) ==
    LET fingerprint_match == resp.partial_matches[index]
        best_file == find_best_matching_file(fingerprint_match.latest_files,
                                             game_versions, loaders)
        fps == resp.partial_match_fingerprints
        original_fingerprint ==
            IF fingerprint_match.id \in DOMAIN fps /\ fps[fingerprint_match.id] # <<>>
            THEN fps[fingerprint_match.id][1]
            ELSE 0
    IN IF fingerprint_match.id \notin mods THEN <<>>
       ELSE IF best_file = NoFile THEN <<>>
       ELSE IF best_file.fileDate > fingerprint_match.file.fileDate
               \/ best_file.id # fingerprint_match.file.id
       THEN << UpdateInfo(original_fingerprint, fingerprint_match, best_file) >>
       ELSE <<>>

\* one iteration of the loop over partial_matches: <<>> or one update
PartialMatchUpdate(resp, index, mods, game_versions, loaders) ==
    LET fingerprint_match == resp.partial_matches[index]
        best_file == find_best_matching_file(fingerprint_match.latest_files,
                                             game_versions, loaders)
        fps == resp.partial_match_fingerprints
        original_fingerprint ==
            IF fingerprint_match.id \in DOMAIN fps /\ fps[fingerprint_match.id] # <<>>
            THEN fps[fingerprint_match.id][1]
            ELSE 0
    IN IF fingerprint_match.id \notin mods THEN <<>>
       ELSE IF best_file = NoFile THEN <<>>
       ELSE << UpdateInfo(original_fingerprint, fingerprint_match, best_file) >>

RECURSIVE ExactUpdates(_, _, _, _, _)
ExactUpdates(resp, n, mods, game_versions, loaders) ==
    IF n = 0 THEN <<>>
    ELSE ExactUpdates(resp, n - 1, mods, game_versions, loaders)
         \o ExactMatchUpdate(resp, n, mods, game_versions, loaders)

RECURSIVE PartialUpdates(_, _, _, _, _)
PartialUpdates(resp, n, mods, game_versions, loaders) ==
    IF n = 0 THEN <<>>
    ELSE PartialUpdates(resp, n - 1, mods, game_versions, loaders)
         \o PartialMatchUpdate(resp, n, mods, game_versions, loaders)

\* the best file of every match, in processing order (what the debug log shows)
BestFiles(resp, game_versions, loaders) ==
    [i \in 1..Len(resp.exact_matches) |->
        [kind |-> "exact", index |-> i,
         best |-> find_best_matching_file(resp.exact_matches[i].latest_files,
                                          game_versions, loaders)]]
    \o
    [i \in 1..Len(resp.partial_matches) |->
        [kind |-> "partial", index |-> i,
         best |-> find_best_matching_file(resp.partial_matches[i].latest_files,
                                          game_versions, loaders)]]

\* project ids collected from the matches
MatchProjectIds(resp) ==
    {resp.exact_matches[i].id : i \in DOMAIN resp.exact_matches}
    \cup {resp.partial_matches[i].id : i \in DOMAIN resp.partial_matches}

\* the fingerprint request: an HTTP or decode failure returns Err; an answer
\* without matches returns Ok(empty) at once
CfFingerprintCall ==
    /\ uPc = "fingerprints"
    /\ \/ uPc' = "err" /\ UNCHANGED uUpdates
       \/ /\ MatchProjectIds(uResp) = {}
          /\ uPc' = "bulk_done" /\ uUpdates' = <<>>
       \/ /\ MatchProjectIds(uResp) # {}
          /\ uPc' = "mods" /\ UNCHANGED uUpdates
    /\ UNCHANGED <<uReq, uResp, uMods, uBest, uResult>>

\* get_mods_by_ids(project_ids): failure returns Err, else the matches are
\* processed, exact matches first
CfGetModsAndProcess ==
    /\ uPc = "mods"
    /\ \/ uPc' = "err" /\ UNCHANGED <<uUpdates, uBest>>
       \/ /\ uPc' = "bulk_done"
          /\ uBest' = BestFiles(uResp, uReq.game_versions, uReq.loaders)
          /\ uUpdates' =
                ExactUpdates(uResp, Len(uResp.exact_matches), uMods,
                             uReq.game_versions, uReq.loaders)
                \o PartialUpdates(uResp, Len(uResp.partial_matches), uMods,
                                  uReq.game_versions, uReq.loaders)
    /\ UNCHANGED <<uReq, uResp, uMods, uResult>>

Digits == <<"0", "1", "2", "3", "4", "5", "6", "7", "8", "9">>

\* u64::to_string: the decimal digits, as a sequence of characters
RECURSIVE u64_to_string(_)
u64_to_string(n) ==
    IF n < 10 THEN <<Digits[n + 1]>>
    ELSE u64_to_string(n \div 10) \o <<Digits[(n % 10) + 1]>>

\* a key that is not the plain decimal string
FingerprintKeyPadded(fp) == <<"0">> \o u64_to_string(fp)

\* update_info.original_fingerprint.to_string(), the key of the result map
FingerprintKey(fp) == u64_to_string(fp)

UnifiedVersionOf(update_info) ==
    [id |-> update_info.file_id,
     project_id |-> update_info.project_id,
     date_published |-> update_info.file_date,
     game_versions |-> extract_game_versions_from_mixed(update_info.game_versions),
     loaders |-> extract_loaders_from_game_versions(update_info.game_versions),
     source |-> "CurseForge"]

\* updates.insert(key, version) for every update in order: the last one wins
UpdatesMap(updates) ==
    [k \in {FingerprintKey(updates[i].original_fingerprint) : i \in DOMAIN updates} |->
        LET last == CHOOSE i \in DOMAIN updates :
                /\ FingerprintKey(updates[i].original_fingerprint) = k
                /\ \A j \in DOMAIN updates :
                        FingerprintKey(updates[j].original_fingerprint) = k => j <= i
        IN UnifiedVersionOf(updates[last])]

\* check_curseforge_updates_only after check_mod_updates_bulk returned Ok
CfConvert ==
    /\ uPc = "bulk_done"
    /\ uResult' = UpdatesMap(uUpdates)
    /\ uPc' = "done"
    /\ UNCHANGED <<uReq, uResp, uMods, uBest, uUpdates>>

Fingerprints == {101, 102}
ProjectIds == {10, 20}
InstalledFile == [id |-> 1, fileDate |-> 2, gameVersions |-> {"1.21", "Fabric"}]
GoodFile == [id |-> 2, fileDate |-> 3, gameVersions |-> {"1.21", "Fabric"}]
BadFile == [id |-> 2, fileDate |-> 3, gameVersions |-> {"1.21", "Forge"}]
FilePool ==
    { InstalledFile, GoodFile, BadFile,
      [id |-> 2, fileDate |-> 3, gameVersions |-> {"1.20.1", "Fabric"}],
      [id |-> 2, fileDate |-> 3, gameVersions |-> {"1.21", "NeoForge"}],
      [id |-> 2, fileDate |-> 1, gameVersions |-> {"1.21", "Fabric"}],
      [id |-> 1, fileDate |-> 3, gameVersions |-> {"1.21", "Fabric"}],
      [id |-> 1, fileDate |-> 1, gameVersions |-> {"1.21", "Fabric"}] }

\* one match with any latestFiles
RichMatches(max_files) ==
    [id : {10}, file : {InstalledFile}, latest_files : SeqsUpTo(FilePool, max_files)]

\* several matches with one file each
SimpleMatches ==
    [id : ProjectIds, file : {InstalledFile}, latest_files : {<<GoodFile>>, <<BadFile>>}]

PartialFingerprintMaps ==
    UNION {[ids -> {<<101>>, <<102>>}] : ids \in SUBSET ProjectIds}

Responses(max_files, max_matches) ==
    {[exact_matches |-> <<m>>, exact_fingerprints |-> <<101>>,
      partial_matches |-> <<>>, partial_match_fingerprints |-> <<>>] : m \in RichMatches(max_files)}
    \cup
    {[exact_matches |-> <<>>, exact_fingerprints |-> <<>>,
      partial_matches |-> <<m>>, partial_match_fingerprints |-> [i \in {10} |-> <<102>>]] :
        m \in RichMatches(max_files)}
    \cup
    {[exact_matches |-> e, exact_fingerprints |-> [i \in DOMAIN e |-> 100 + i],
      partial_matches |-> q, partial_match_fingerprints |-> pf] :
        e \in SeqsUpTo(SimpleMatches, max_matches),
        q \in SeqsUpTo({m \in SimpleMatches : m.latest_files = <<GoodFile>>},
                      max_matches - 1),
        pf \in PartialFingerprintMaps}

IdleUpd ==
    /\ uReq = [game_versions |-> {}, loaders |-> {}]
    /\ uResp = [exact_matches |-> <<>>, exact_fingerprints |-> <<>>,
                partial_matches |-> <<>>, partial_match_fingerprints |-> <<>>]
    /\ uMods = {}
    /\ uPc = "idle"
    /\ uBest = <<>>
    /\ uUpdates = <<>>
    /\ uResult = <<>>


(***************************************************************************)
(* check_mod_updates_unified (integrations/unified_mod.rs)                 *)
(***************************************************************************)
\* Option<HashMap<..>>
EmptyMap == [k \in {} |-> 0]
None == [some |-> FALSE, map |-> EmptyMap]
Some(map) == [some |-> TRUE, map |-> map]

\* hashes are strings (sequences of characters); Hash101 is the string "101"
HashA == <<"a", "b">>
HashB == <<"c", "d">>
Hash101 == <<"1", "0", "1">>

\* the fingerprint the caller computed for the file with this hash
FingerprintOfHash(h) == IF h = HashA THEN 102 ELSE 101

Range(seq) == {seq[i] : i \in DOMAIN seq}

PartialMaps(D, R) == UNION {[d -> R] : d \in SUBSET D}

\* request.hashes, request.hash_platforms, request.hash_fingerprints
HashRequests ==
    UNION {[hashes : {hs},
            hash_platforms :
                {None} \cup {Some(m) : m \in PartialMaps(Range(hs), {"Modrinth", "CurseForge"})},
            hash_fingerprints :
                {None} \cup {Some([h \in d |-> FingerprintOfHash(h)]) : d \in SUBSET Range(hs)}] :
           hs \in {<<HashA>>, <<HashA, HashB>>, <<Hash101, HashA>>}}

\* group_hashes_by_platform: a hash without a platform goes to Modrinth
group_hashes_by_platform(request) ==
    IF request.hash_platforms = None
    THEN [modrinth_hashes |-> request.hashes, curseforge_hashes |-> <<>>]
    ELSE LET hp == request.hash_platforms.map
         IN [modrinth_hashes |->
                SelectSeq(request.hashes,
                          LAMBDA h : h \notin DOMAIN hp \/ hp[h] = "Modrinth"),
             curseforge_hashes |->
                SelectSeq(request.hashes,
                          LAMBDA h : h \in DOMAIN hp /\ hp[h] = "CurseForge")]

\* the fingerprints check_curseforge_updates_only sends: one per CurseForge
\* hash that has an entry in hash_fingerprints
CollectFingerprints(request, curseforge_hashes) ==
    IF request.hash_fingerprints = None THEN <<>>
    ELSE LET known == SelectSeq(curseforge_hashes,
                                LAMBDA h : h \in DOMAIN request.hash_fingerprints.map)
         IN [i \in DOMAIN known |-> request.hash_fingerprints.map[known[i]]]

SentFingerprints(request) ==
    Range(CollectFingerprints(request, group_hashes_by_platform(request).curseforge_hashes))

\* ModrinthVersion -> UnifiedVersion
ModrinthInto(modrinth_version) ==
    [id |-> modrinth_version.id,
     project_id |-> modrinth_version.project_id,
     date_published |-> modrinth_version.date_published,
     game_versions |-> modrinth_version.game_versions,
     loaders |-> modrinth_version.loaders,
     source |-> "Modrinth"]

ModrinthVersion ==
    [id |-> 7, project_id |-> 70, date_published |-> 3,
     game_versions |-> {"1.21"}, loaders |-> {"fabric"}]

\* answers of modrinth::check_bulk_updates for the hashes sent: an error, or a
\* newer version for some of them
ModrinthResponses(modrinth_hashes) ==
    {[status |-> "err", versions |-> EmptyMap]}
    \cup {[status |-> "ok", versions |-> [h \in d |-> ModrinthVersion]] :
            d \in SUBSET Range(modrinth_hashes)}

\* HashMap::extend: an entry of `more` replaces an entry with the same key
Extend(map, more) ==
    [k \in DOMAIN map \cup DOMAIN more |-> IF k \in DOMAIN more THEN more[k] ELSE map[k]]

\* the call groups the hashes and polls both futures of tokio::join! once:
\* check_curseforge_updates_only returns Ok(empty) at once when it has no
\* hash or no fingerprint to send
UniBegin ==
    /\ uniPc = "called"
    /\ uniPc' = "joining"
    /\ IF SentFingerprints(uHashReq) = {}
       THEN uPc' = "skipped"
       ELSE uPc' = "fingerprints"
    /\ UNCHANGED <<uHashReq, mrResp, mrOut, all_updates>>
    /\ UNCHANGED <<uReq, uResp, uMods, uBest, uUpdates, uResult>>

\* check_modrinth_updates_only: Ok(empty) without a call when there is no
\* Modrinth hash, else Err or the converted answer under the answer's keys
ModrinthCheck ==
    /\ uniPc = "joining"
    /\ mrOut.status = "pending"
    /\ mrOut' =
        IF group_hashes_by_platform(uHashReq).modrinth_hashes = <<>>
        THEN [status |-> "ok", updates |-> EmptyMap]
        ELSE IF mrResp.status = "err"
        THEN [status |-> "err", updates |-> EmptyMap]
        ELSE [status |-> "ok",
              updates |-> [h \in DOMAIN mrResp.versions |->
                                ModrinthInto(mrResp.versions[h])]]
    /\ UNCHANGED <<uHashReq, mrResp, uniPc, all_updates, updVars>>

\* a join that gives up the results when one of the checks failed
UniJoinAllOrNothing ==
    /\ uniPc = "joining"
    /\ mrOut.status # "pending"
    /\ uPc \in {"skipped", "done", "err"}
    /\ all_updates' =
        IF mrOut.status = "err" \/ uPc = "err" THEN EmptyMap
        ELSE Extend(mrOut.updates, uResult)
    /\ uniPc' = "ok"
    /\ UNCHANGED <<uHashReq, mrResp, mrOut, updVars>>

\* both futures have completed: the Ok results are merged, Modrinth first,
\* an Err is logged; the call returns Ok
UniJoin ==
    /\ uniPc = "joining"
    /\ mrOut.status # "pending"
    /\ uPc \in {"skipped", "done", "err"}
    /\ all_updates' =
        Extend(IF mrOut.status = "ok" THEN mrOut.updates ELSE EmptyMap,
               IF uPc = "err" THEN EmptyMap ELSE uResult)
    /\ uniPc' = "ok"
    /\ UNCHANGED <<uHashReq, mrResp, mrOut, updVars>>

IdleUni ==
    /\ uHashReq = [hashes |-> <<>>, hash_platforms |-> None, hash_fingerprints |-> None]
    /\ mrResp = [status |-> "ok", versions |-> EmptyMap]
    /\ mrOut = [status |-> "pending", updates |-> EmptyMap]
    /\ uniPc = "idle"
    /\ all_updates = EmptyMap

(***************************************************************************)
(* download_mods_to_cache (ModDownloadService) and                         *)
(* download_pack_mods_to_cache (NoriskPackDownloadService)                 *)
(***************************************************************************)
DEFAULT_CONCURRENT_MOD_DOWNLOADS == 4

\* entries of a profile: ModSource values with the enabled flag
ModSources ==
    { [kind |-> "Modrinth", file_name |-> "m.jar", download_url |-> "u1", sha1 |-> "none"],
      [kind |-> "Modrinth", file_name |-> "m.jar", download_url |-> "u2", sha1 |-> "h2"],
      [kind |-> "CurseForge", file_name |-> "c.jar", download_url |-> "u3", sha1 |-> "none"],
      [kind |-> "Local", file_name |-> "l.jar", download_url |-> "none", sha1 |-> "none"],
      [kind |-> "Embedded", file_name |-> "e", download_url |-> "none", sha1 |-> "none"],
      [kind |-> "Maven", file_name |-> "none", download_url |-> "none", sha1 |-> "none"] }

ProfileEntries ==
    [enabled : {TRUE}, source : ModSources]
    \cup [enabled : {FALSE},
          source : {s \in ModSources : s.kind = "Maven" \/ s.download_url = "u1"}]

\* entries of a Norisk pack definition: `enabled` says whether the entry has a
\* compatibility target for the Minecraft version and loader; a Maven source
\* whose repository_ref is unknown has download_url "none"
PackSources ==
    { [kind |-> "PackModrinth", file_name |-> "m.jar", download_url |-> "u1", sha1 |-> "none"],
      [kind |-> "PackMaven", file_name |-> "c.jar", download_url |-> "u3", sha1 |-> "none"],
      [kind |-> "PackMaven", file_name |-> "l.jar", download_url |-> "none", sha1 |-> "none"],
      [kind |-> "PackUrl", file_name |-> "m.jar", download_url |-> "u2", sha1 |-> "none"],
      [kind |-> "PackUrl", file_name |-> "none", download_url |-> "u2", sha1 |-> "none"] }

PackEntries ==
    [enabled : {TRUE}, source : PackSources]
    \cup [enabled : {FALSE}, source : {s \in PackSources : s.download_url = "u1"}]

CacheFileNames == {"m.jar", "c.jar", "l.jar", "e"}

\* what the server sends for a URL
ContentOf(url) ==
    CASE url = "u1" -> 11
      [] url = "u2" -> 12
      [] url = "u3" -> 13
      [] OTHER -> 0

\* a derivation that also looks at how often the service was called
get_profile_mod_filename_per_call(source) ==
    IF source.file_name = "none" THEN "err"
    ELSE IF dlCalls = 2 THEN "c.jar"
    ELSE source.file_name

\* get_profile_mod_filename / get_norisk_pack_mod_filename: the file name the
\* source gives, an error for a source that gives none
get_profile_mod_filename(source) ==
    IF source.file_name = "none" THEN "err" ELSE source.file_name

\* DownloadUtils::download_file up to its first suspension: a file that is
\* already at target_path is trusted and nothing is fetched
download_file(url, target_path, config) ==
    IF dlCache[target_path] # 0 THEN "present" ELSE "fetch"

\* a variant that fetches whether or not the file is there
download_and_verify_file_always(url, target_path, expected_sha1) == "fetch"

\* download_and_verify_file: streaming, 3 retries, SHA1 when given
download_and_verify_file(url, target_path, expected_sha1) ==
    download_file(url, target_path,
                  [streaming |-> TRUE, retries |-> 3, sha1 |-> expected_sha1])

\* a task that treats every source kind without a download arm as an error
TaskFirstPollStrict(entry) ==
    LET source == entry.source
        filename == get_profile_mod_filename(source)
    IN IF filename = "err" THEN "err"
       ELSE IF source.kind \in {"Modrinth", "PackModrinth", "PackUrl", "PackMaven"}
       THEN IF download_and_verify_file(source.download_url, filename, source.sha1)
                    = "present"
            THEN "ok" ELSE "fetch"
       ELSE "err"

\* what the future queued for an entry does when it is polled first:
\* "err" (returns Err), "ok" (returns Ok without a fetch) or "fetch"
TaskFirstPoll(entry) ==
    LET source == entry.source
        filename == get_profile_mod_filename(source)
    IN IF filename = "err" THEN "err"
       ELSE CASE source.kind = "Modrinth" ->
                    IF download_and_verify_file(source.download_url, filename,
                                                source.sha1) = "present"
                    THEN "ok" ELSE "fetch"
              [] source.kind \in {"PackModrinth", "PackUrl"} ->
                    IF download_and_verify_file(source.download_url, filename,
                                                "none") = "present"
                    THEN "ok" ELSE "fetch"
              [] source.kind = "PackMaven" ->
                    IF source.download_url = "none" THEN "err"
                    ELSE IF download_and_verify_file(source.download_url, filename,
                                                     "none") = "present"
                    THEN "ok" ELSE "fetch"
              [] OTHER -> "ok"

Running == {i \in DOMAIN dlTasks : dlTasks[i] = "fetching"}
Queued == {i \in DOMAIN dlTasks : dlTasks[i] = "queued"}

\* the loop that builds download_futures: disabled entries (entries without a
\* compatibility target) get no future
DlBegin ==
    /\ dlPc \in {"idle", "ok", "err"}
    /\ dlCalls < MaxDlCalls
    /\ dlCalls' = dlCalls + 1
    /\ dlTasks' = [i \in DOMAIN profile_mods |->
                      IF profile_mods[i].enabled THEN "queued" ELSE "none"]
    /\ dlResults' = <<>>
    /\ dlErr' = 0
    /\ dlFetched' = {}
    /\ dlCache0' = dlCache
    /\ dlPc' = "running"
    /\ UNCHANGED <<service, concurrent_downloads, profile_mods, dlCache>>

\* a buffer that polls every queued future at once
DlTaskStartUnbounded(i) ==
    /\ dlPc = "running"
    /\ i \in Queued
    /\ \A j \in Queued : i <= j
    /\ LET first == TaskFirstPoll(profile_mods[i])
       IN IF first = "fetch"
          THEN /\ dlTasks' = [dlTasks EXCEPT ![i] = "fetching"]
               /\ dlFetched' = dlFetched \cup {i}
               /\ UNCHANGED dlResults
          ELSE /\ dlTasks' = [dlTasks EXCEPT ![i] = first]
               /\ dlResults' = Append(dlResults, [task |-> i, result |-> first])
               /\ UNCHANGED dlFetched
    /\ UNCHANGED <<service, concurrent_downloads, profile_mods, dlCache, dlPc, dlErr,
                   dlCache0, dlCalls>>

\* buffer_unordered takes the next future of the list while fewer than
\* concurrent_downloads are in flight, and polls it
DlTaskStart(i) ==
    /\ dlPc = "running"
    /\ i \in Queued
    /\ \A j \in Queued : i <= j
    /\ Cardinality(Running) < concurrent_downloads
    /\ LET first == TaskFirstPoll(profile_mods[i])
       IN IF first = "fetch"
          THEN /\ dlTasks' = [dlTasks EXCEPT ![i] = "fetching"]
               /\ dlFetched' = dlFetched \cup {i}
               /\ UNCHANGED dlResults
          ELSE /\ dlTasks' = [dlTasks EXCEPT ![i] = first]
               /\ dlResults' = Append(dlResults, [task |-> i, result |-> first])
               /\ UNCHANGED dlFetched
    /\ UNCHANGED <<service, concurrent_downloads, profile_mods, dlCache, dlPc, dlErr,
                   dlCache0, dlCalls>>

\* a fetch that leaves a file alone that appeared while it was in flight
DlTaskFinishKeepExisting(i) ==
    /\ dlPc = "running"
    /\ dlTasks[i] = "fetching"
    /\ \/ /\ dlCache' = [dlCache EXCEPT ![get_profile_mod_filename(profile_mods[i].source)] =
                            IF @ # 0 THEN @
                            ELSE ContentOf(profile_mods[i].source.download_url)]
          /\ dlTasks' = [dlTasks EXCEPT ![i] = "ok"]
          /\ dlResults' = Append(dlResults, [task |-> i, result |-> "ok"])
       \/ /\ dlTasks' = [dlTasks EXCEPT ![i] = "err"]
          /\ dlResults' = Append(dlResults, [task |-> i, result |-> "err"])
          /\ UNCHANGED dlCache
    /\ UNCHANGED <<service, concurrent_downloads, profile_mods, dlPc, dlErr, dlFetched,
                   dlCache0, dlCalls>>

\* a fetch in flight ends: the file is written at target_path, or the
\* download failed after its retries
DlTaskFinish(i) ==
    /\ dlPc = "running"
    /\ dlTasks[i] = "fetching"
    /\ \/ /\ dlCache' = [dlCache EXCEPT ![get_profile_mod_filename(profile_mods[i].source)] =
                            ContentOf(profile_mods[i].source.download_url)]
          /\ dlTasks' = [dlTasks EXCEPT ![i] = "ok"]
          /\ dlResults' = Append(dlResults, [task |-> i, result |-> "ok"])
       \/ /\ dlTasks' = [dlTasks EXCEPT ![i] = "err"]
          /\ dlResults' = Append(dlResults, [task |-> i, result |-> "err"])
          /\ UNCHANGED dlCache
    /\ UNCHANGED <<service, concurrent_downloads, profile_mods, dlPc, dlErr, dlFetched,
                   dlCache0, dlCalls>>

FirstError(results) ==
    LET errs == SelectSeq(results, LAMBDA r : r.result = "err")
    IN IF errs = <<>> THEN 0 ELSE errs[1].task

\* a collect that stops at the first error (try_collect)
DlReturnFailFast ==
    /\ dlPc = "running"
    /\ \/ FirstError(dlResults) # 0
       \/ \A i \in DOMAIN dlTasks : dlTasks[i] \in {"none", "ok", "err"}
    /\ dlErr' = FirstError(dlResults)
    /\ dlPc' = IF FirstError(dlResults) = 0 THEN "ok" ELSE "err"
    /\ UNCHANGED <<service, concurrent_downloads, profile_mods, dlCache, dlTasks,
                   dlResults, dlFetched, dlCache0, dlCalls>>

\* .collect().await ends when every future has ended; the errors are gathered
\* in result order and the first one is returned
DlReturn ==
    /\ dlPc = "running"
    /\ \A i \in DOMAIN dlTasks : dlTasks[i] \in {"none", "ok", "err"}
    /\ dlErr' = FirstError(dlResults)
    /\ dlPc' = IF FirstError(dlResults) = 0 THEN "ok" ELSE "err"
    /\ UNCHANGED <<service, concurrent_downloads, profile_mods, dlCache, dlTasks,
                   dlResults, dlFetched, dlCache0, dlCalls>>

IdleDl ==
    /\ service = "mods"
    /\ concurrent_downloads = DEFAULT_CONCURRENT_MOD_DOWNLOADS
    /\ profile_mods = <<>>
    /\ dlCache = [f \in CacheFileNames |-> 0]
    /\ dlPc = "idle"
    /\ dlTasks = <<>>
    /\ dlResults = <<>>
    /\ dlErr = 0
    /\ dlFetched = {}
    /\ dlCache0 = dlCache
    /\ dlCalls = 0

(***************************************************************************)
(* extract_curseforge_overrides: the spawned units, the permit pool and    *)
(* the join (integrations/curseforge.rs)                                   *)
(***************************************************************************)
UnitsIn(st) == {u \in DOMAIN extraction_tasks : extraction_tasks[u] = st}
UnitsInIo == UnitsIn("io")
Unfinished == UnitsIn("waiting") \cup UnitsIn("io")

\* the call begins: io_semaphore is cloned from the state, the archive is
\* opened for listing
ExBegin ==
    /\ exPc = "idle"
    /\ exPc' = "listing"
    /\ UNCHANGED <<io_permits, io_semaphore, is_entry_dir, extraction_tasks, exDisk,
                   exErr>>

\* the listing loop reaches the next override entry and spawns its unit
\* (tokio::spawn: the unit runs from now on, whatever the caller does)
ExSpawn ==
    /\ exPc = "listing"
    /\ Len(extraction_tasks) < Len(is_entry_dir)
    /\ extraction_tasks' = Append(extraction_tasks, "waiting")
    /\ UNCHANGED <<io_permits, io_semaphore, is_entry_dir, exPc, exDisk, exErr>>

\* the listing loop ends; the caller awaits try_join_all(extraction_tasks)
ExListed ==
    /\ exPc = "listing"
    /\ Len(extraction_tasks) = Len(is_entry_dir)
    /\ exPc' = "joining"
    /\ UNCHANGED <<io_permits, io_semaphore, is_entry_dir, extraction_tasks, exDisk,
                   exErr>>

\* task_io_semaphore.acquire().await
UnitAcquire(u) ==
    /\ extraction_tasks[u] = "waiting"
    /\ io_semaphore > 0
    /\ io_semaphore' = io_semaphore - 1
    /\ extraction_tasks' = [extraction_tasks EXCEPT ![u] = "io"]
    /\ UNCHANGED <<io_permits, is_entry_dir, exPc, exDisk, exErr>>

\* the unit creates its directory, or streams its entry to the destination
\* file, and returns Ok; _permit is dropped
UnitFinish(u) ==
    /\ extraction_tasks[u] = "io"
    /\ extraction_tasks' = [extraction_tasks EXCEPT ![u] = "ok"]
    /\ exDisk' = exDisk \cup {u}
    /\ io_semaphore' = io_semaphore + 1
    /\ UNCHANGED <<io_permits, is_entry_dir, exPc, exErr>>

\* an I/O step of the unit fails: the unit returns Err; _permit is dropped
UnitFail(u) ==
    /\ extraction_tasks[u] = "io"
    /\ extraction_tasks' = [extraction_tasks EXCEPT ![u] = "err"]
    /\ io_semaphore' = io_semaphore + 1
    /\ UNCHANGED <<io_permits, is_entry_dir, exPc, exDisk, exErr>>

\* the unit panics: its JoinHandle yields a JoinError; _permit is dropped by
\* the unwinding
UnitPanic(u) ==
    /\ extraction_tasks[u] = "io"
    /\ extraction_tasks' = [extraction_tasks EXCEPT ![u] = "panic"]
    /\ io_semaphore' = io_semaphore + 1
    /\ UNCHANGED <<io_permits, is_entry_dir, exPc, exDisk, exErr>>

\* the first unit, in spawn order, that is in state st (0 if none)
FirstUnitIn(st) ==
    IF UnitsIn(st) = {} THEN 0
    ELSE CHOOSE u \in UnitsIn(st) : \A v \in UnitsIn(st) : u <= v

\* try_join_all is polled when a JoinHandle has yielded a JoinError: it
\* returns that error at once, and map_err(..)? returns from the call
ExJoinPanicked ==
    /\ exPc = "joining"
    /\ UnitsIn("panic") # {}
    /\ exPc' = "err"
    /\ exErr' = [unit |-> FirstUnitIn("panic"), kind |-> "panic"]
    /\ UNCHANGED <<io_permits, io_semaphore, is_entry_dir, extraction_tasks, exDisk>>

\* every JoinHandle has yielded Ok(result): `for result in results { result?; }`
ExJoinAll ==
    /\ exPc = "joining"
    /\ \A u \in DOMAIN extraction_tasks : extraction_tasks[u] \in {"ok", "err"}
    /\ IF UnitsIn("err") = {}
       THEN /\ exPc' = "ok"
            /\ UNCHANGED exErr
       ELSE /\ exPc' = "err"
            /\ exErr' = [unit |-> FirstUnitIn("err"), kind |-> "err"]
    /\ UNCHANGED <<io_permits, io_semaphore, is_entry_dir, extraction_tasks, exDisk>>

IdleEx ==
    /\ io_permits = 1
    /\ io_semaphore = 1
    /\ is_entry_dir = <<>>
    /\ exPc = "idle"
    /\ extraction_tasks = <<>>
    /\ exDisk = {}
    /\ exErr = [unit |-> 0, kind |-> "none"]

(***************************************************************************)
(* ModloaderFactory::resolve_loader_version (minecraft/modloader/mod.rs)   *)
(***************************************************************************)
\* Option<String>
NoVersion == [some |-> FALSE, v |-> ""]
SomeVersion(v) == [some |-> TRUE, v |-> v]

\* Minecraft versions and by_minecraft keys, one character per element
Mc_1_21_4 == <<"1", ".", "2", "1", ".", "4">>
Mc_1_210 == <<"1", ".", "2", "1", "0">>
Mc_1_21 == <<"1", ".", "2", "1">>
Mc_1_2 == <<"1", ".", "2">>
Pat_1_21_Star == <<"1", ".", "2", "1", ".", "*">>
Pat_1_Star == <<"1", ".", "*">>
DotStar == <<".", "*">>

MinecraftVersions == {Mc_1_21_4, Mc_1_210, Mc_1_21, Mc_1_2}
Patterns == {Mc_1_21_4, Mc_1_21, Mc_1_2, Pat_1_21_Star, Pat_1_Star}

\* str::starts_with, str::ends_with
starts_with(s, prefix) ==
    Len(prefix) <= Len(s) /\ SubSeq(s, 1, Len(prefix)) = prefix

ends_with(s, suffix) ==
    Len(suffix) <= Len(s) /\ SubSeq(s, Len(s) - Len(suffix) + 1, Len(s)) = suffix

\* HashMap<String, LoaderSpec>: loader key -> [version : Option<String>]
LoaderMaps ==
    { <<>>,
      [k \in {"fabric"} |-> [version |-> NoVersion]],
      [k \in {"fabric"} |-> [version |-> SomeVersion("X")]],
      [k \in {"fabric"} |-> [version |-> SomeVersion("Y")]],
      [k \in {"forge"} |-> [version |-> SomeVersion("X")]] }

DefaultMaps ==
    { <<>>,
      [k \in {"fabric"} |-> [version |-> SomeVersion("D")]],
      [k \in {"forge"} |-> [version |-> SomeVersion("D")]] }

\* the loader policies with at most max_entries by_minecraft entries
Policies(max_entries) ==
    UNION { [by_minecraft : [pats -> LoaderMaps], default : DefaultMaps] :
            pats \in {ps \in SUBSET Patterns : Cardinality(ps) <= max_entries} }

EmptyPolicy == [by_minecraft |-> <<>>, default |-> <<>>]

\* what lines 62-65 find: no pack selected, no pack configuration, the pack
\* does not resolve, the pack has no loader policy, or a loader policy
Packs(max_entries) ==
    [kind : {"none_selected", "no_config", "unresolved", "no_policy"}, policy : {EmptyPolicy}]
    \cup [kind : {"policy"}, policy : Policies(max_entries)]

Profiles ==
    [loader : {"vanilla", "fabric"},
     settings : [use_overwrite_loader_version : BOOLEAN,
                 overwrite_loader_version : {NoVersion, SomeVersion(""), SomeVersion("O")}],
     loader_version : {NoVersion, SomeVersion(""), SomeVersion("P")}]

\* the closure get_ver
get_ver(m, loader_key) ==
    IF loader_key \in DOMAIN m THEN m[loader_key].version ELSE NoVersion

\* by_minecraft keys the wildcard loop accepts
WildcardKeys(policy, mc) ==
    {pat \in DOMAIN policy.by_minecraft :
        /\ ends_with(pat, DotStar)
        /\ starts_with(mc, SubSeq(pat, 1, Len(pat) - 2))}

\* by_minecraft keys the prefix loop accepts
PrefixKeys(policy, mc) ==
    {pat \in DOMAIN policy.by_minecraft : ~ends_with(pat, DotStar) /\ starts_with(mc, pat)}

\* the versions a loop over the keys can end with: it stops at the first key,
\* in the map's iteration order, that has a version for the loader
LoopVersions(policy, keys, loader_key) ==
    {get_ver(policy.by_minecraft[pat], loader_key) : pat \in keys} \ {NoVersion}

\* the values resolved_version can have after the four matchers
PolicyVersions(policy, loader_key, mc) ==
    LET exact == IF mc \in DOMAIN policy.by_minecraft
                 THEN get_ver(policy.by_minecraft[mc], loader_key)
                 ELSE NoVersion
        wildcard == LoopVersions(policy, WildcardKeys(policy, mc), loader_key)
        prefix == LoopVersions(policy, PrefixKeys(policy, mc), loader_key)
    IN IF exact.some THEN {exact}
       ELSE IF wildcard # {} THEN wildcard
       ELSE IF prefix # {} THEN prefix
       ELSE {get_ver(policy.default, loader_key)}

ResolvedLoaderVersion(version, reason) == [version |-> version, reason |-> reason]

\* an override that ignores the use_overwrite_loader_version flag
user_overwrite_unconditional(profile) ==
    IF /\ profile.settings.overwrite_loader_version.some
       /\ profile.settings.overwrite_loader_version.v # ""
    THEN profile.settings.overwrite_loader_version
    ELSE NoVersion

\* step 1: the user overwrite, if enabled and non-empty
user_overwrite(profile) ==
    IF /\ profile.settings.use_overwrite_loader_version
       /\ profile.settings.overwrite_loader_version.some
       /\ profile.settings.overwrite_loader_version.v # ""
    THEN profile.settings.overwrite_loader_version
    ELSE NoVersion

\* steps 2-4 for one value of resolved_version
AfterOverwrite(profile, resolved_version) ==
    IF resolved_version.some
    THEN ResolvedLoaderVersion(resolved_version, "NoriskPack")
    ELSE IF profile.loader_version.some /\ profile.loader_version.v # ""
    THEN ResolvedLoaderVersion(profile.loader_version, "ProfileDefault")
    ELSE ResolvedLoaderVersion(NoVersion, "NotResolved")

\* a resolver without the early return for vanilla profiles
resolve_loader_version_any_loader(profile, mc, pack) ==
    IF user_overwrite(profile).some
    THEN {ResolvedLoaderVersion(user_overwrite(profile), "UserOverwrite")}
    ELSE IF pack.kind = "policy"
    THEN {AfterOverwrite(profile, rv) : rv \in PolicyVersions(pack.policy, profile.loader, mc)}
    ELSE {AfterOverwrite(profile, NoVersion)}

\* the results resolve_loader_version can return
resolve_loader_version(profile, mc, pack) ==
    IF profile.loader = "vanilla"
    THEN {ResolvedLoaderVersion(NoVersion, "ProfileDefault")}
    ELSE IF user_overwrite(profile).some
    THEN {ResolvedLoaderVersion(user_overwrite(profile), "UserOverwrite")}
    ELSE IF pack.kind = "policy"
    THEN {AfterOverwrite(profile, rv) : rv \in PolicyVersions(pack.policy, profile.loader, mc)}
    ELSE {AfterOverwrite(profile, NoVersion)}

ResolveLoaderVersion ==
    /\ rlPc = "called"
    /\ rlResult' \in resolve_loader_version(rlProfile, rlMinecraft, rlPack)
    /\ rlPc' = "returned"
    /\ UNCHANGED <<rlProfile, rlMinecraft, rlPack>>

IdleLoader ==
    /\ rlProfile = [loader |-> "vanilla",
                    settings |-> [use_overwrite_loader_version |-> FALSE,
                                  overwrite_loader_version |-> NoVersion],
                    loader_version |-> NoVersion]
    /\ rlMinecraft = <<>>
    /\ rlPack = [kind |-> "none_selected", policy |-> EmptyPolicy]
    /\ rlPc = "idle"
    /\ rlResult = ResolvedLoaderVersion(NoVersion, "NotResolved")

(***************************************************************************)
(* switch_modpack_version (integrations/unified_mod.rs)                    *)
(***************************************************************************)
\* Mod entries: modpack_origin "" stands for None
ProfileModEntries == [id : {1, 2}, modpack_origin : {"", "pack:1.0"}]
ManifestModEntries == [id : {2, 3}, modpack_origin : {"", "pack:2.0"}]

GameVersions == {"1.20.1", "1.21.4"}

NotSaved == [some |-> FALSE, mods |-> <<>>, game_version |-> ""]

\* a loop that keeps every existing mod
KeepEveryMod(mods) == mods

\* the loop over profile.mods: the mods without modpack_origin, in order
RECURSIVE KeepUserMods(_)
KeepUserMods(mods) ==
    IF mods = <<>> THEN <<>>
    ELSE IF Head(mods).modpack_origin = ""
    THEN <<Head(mods)>> \o KeepUserMods(Tail(mods))
    ELSE KeepUserMods(Tail(mods))

\* download_file into the temporary directory; an error is returned
SwDownload ==
    /\ swPc = "called"
    /\ \/ swPc' = "downloaded" /\ swFailedAt' = swFailedAt
       \/ swPc' = "failed" /\ swFailedAt' = "download_file"
    /\ UNCHANGED <<swProfile, swManifest, swLocal, swNew, swSaved, swGame, swManifestGame,
                   swLocalGame, swOverridesOnDisk>>

\* State::get and get_profile: the local copy of the profile
SwGetProfile ==
    /\ swPc = "downloaded"
    /\ \/ /\ swLocal' = swProfile
          /\ swLocalGame' = swGame
          /\ swPc' = "loaded"
          /\ swFailedAt' = swFailedAt
       \/ /\ swLocal' = swLocal
          /\ swLocalGame' = swLocalGame
          /\ swPc' = "failed"
          /\ swFailedAt' = "get_profile"
    /\ UNCHANGED <<swProfile, swManifest, swNew, swSaved, swGame, swManifestGame,
                   swOverridesOnDisk>>

\* process_mrpack / process_curseforge_pack_from_zip and extract_modpack_info
SwProcessPack ==
    /\ swPc = "loaded"
    /\ \/ swNew' = swManifest /\ swPc' = "processed" /\ swFailedAt' = swFailedAt
       \/ /\ swNew' = swNew
          /\ swPc' = "failed"
          /\ swFailedAt' \in {"process_pack", "extract_modpack_info"}
    /\ UNCHANGED <<swProfile, swManifest, swLocal, swSaved, swGame, swManifestGame,
                   swLocalGame, swOverridesOnDisk>>

\* profile.game_version = minecraft_version, the two loops and
\* profile.mods = updated_mods, all on the local copy
SwUpdateMods ==
    /\ swPc = "processed"
    /\ swLocalGame' = swManifestGame
    /\ swLocal' = KeepUserMods(swLocal) \o swNew
    /\ swPc' = "updated"
    /\ UNCHANGED <<swProfile, swManifest, swNew, swSaved, swGame, swManifestGame,
                   swFailedAt, swOverridesOnDisk>>

\* an extraction whose error is only reported after the profile is saved
SwExtractOverridesAfterSave ==
    /\ swPc = "updated"
    /\ \/ /\ swPc' = "extracted"
          /\ swOverridesOnDisk' \in BOOLEAN
          /\ UNCHANGED <<swFailedAt, swSaved>>
       \/ /\ swPc' = "failed"
          /\ swFailedAt' = "extract_overrides"
          /\ swOverridesOnDisk' \in BOOLEAN
          /\ swSaved' = [some |-> TRUE, mods |-> swLocal, game_version |-> swLocalGame]
    /\ UNCHANGED <<swProfile, swManifest, swLocal, swNew, swGame, swManifestGame,
                   swLocalGame>>

\* extract_mrpack_overrides / extract_curseforge_overrides: files are written
\* below the profile directory if the pack has overrides; an error returns
\* before the profile is saved and leaves the files written so far
SwExtractOverrides ==
    /\ swPc = "updated"
    /\ \/ /\ swPc' = "extracted"
          /\ swOverridesOnDisk' \in BOOLEAN
          /\ swFailedAt' = swFailedAt
       \/ /\ swPc' = "failed"
          /\ swFailedAt' = "extract_overrides"
          /\ swOverridesOnDisk' \in BOOLEAN
    /\ UNCHANGED <<swProfile, swManifest, swLocal, swNew, swSaved, swGame, swManifestGame,
                   swLocalGame>>

\* profile_manager.update_profile(request.profile_id, profile) and Ok(..)
SwUpdateProfile ==
    /\ swPc = "extracted"
    /\ \/ /\ swSaved' = [some |-> TRUE, mods |-> swLocal, game_version |-> swLocalGame]
          /\ swPc' = "ok"
          /\ swFailedAt' = swFailedAt
       \/ /\ swSaved' = swSaved
          /\ swPc' = "failed"
          /\ swFailedAt' = "update_profile"
    /\ UNCHANGED <<swProfile, swManifest, swLocal, swNew, swGame, swManifestGame,
                   swLocalGame, swOverridesOnDisk>>

IdleSwitch ==
    /\ swProfile = <<>>
    /\ swManifest = <<>>
    /\ swLocal = <<>>
    /\ swNew = <<>>
    /\ swPc = "idle"
    /\ swSaved = NotSaved
    /\ swGame = ""
    /\ swManifestGame = ""
    /\ swLocalGame = ""
    /\ swFailedAt = "none"
    /\ swOverridesOnDisk = FALSE

(***************************************************************************)
(* determine_memory_settings (integrations/curseforge.rs)                  *)
(***************************************************************************)
NoRam == [some |-> FALSE, mb |-> 0]
SomeRam(mb) == [some |-> TRUE, mb |-> mb]

\* u64::saturating_sub, min, max
saturating_sub(a, b) == IF a >= b THEN a - b ELSE 0
Min(a, b) == IF a <= b THEN a ELSE b
Max(a, b) == IF a >= b THEN a ELSE b

\* ram_amount as u32: every amount the function computes is at most 16384,
\* which the cast leaves as it is
MemorySettings(ram_amount) == [min |-> ram_amount, max |-> ram_amount]

\* memory settings without the floor of 1 GB
determine_memory_settings_no_floor(recommended, system_ram) ==
    IF recommended.some
    THEN MemorySettings(Min(Min(recommended.mb, saturating_sub(system_ram, 2048)), 16384))
    ELSE MemorySettings(Max(Min(system_ram \div 2, 4096), 3048))

determine_memory_settings(recommended, system_ram) ==
    IF recommended.some
    THEN LET available_ram_mb == saturating_sub(system_ram, 2048)
         IN IF recommended.mb > available_ram_mb
            THEN MemorySettings(Max(Min(available_ram_mb, 16384), 1024))
            ELSE MemorySettings(Max(Min(Min(recommended.mb, available_ram_mb), 16384), 1024))
    ELSE MemorySettings(Max(Min(system_ram \div 2, 4096), 3048))

DetermineMemorySettings ==
    /\ memPc = "called"
    /\ memory_settings' = determine_memory_settings(recommended_ram_mb, system_ram_mb)
    /\ memPc' = "returned"
    /\ UNCHANGED <<system_ram_mb, recommended_ram_mb>>

IdleMemory ==
    /\ system_ram_mb = 0
    /\ recommended_ram_mb = NoRam
    /\ memPc = "idle"
    /\ memory_settings = MemorySettings(0)

(***************************************************************************)
(* resolve_curseforge_manifest_files (integrations/curseforge.rs)          *)
(***************************************************************************)
\* manifest.files entries
ManifestFileEntries == [project_id : {10, 20}, file_id : {1, 2}, required : BOOLEAN]

\* the first loop: project_ids in manifest order, duplicates included
RECURSIVE RequiredProjectIds(_)
RequiredProjectIds(files) ==
    IF files = <<>> THEN <<>>
    ELSE (IF Head(files).required THEN <<Head(files).project_id>> ELSE <<>>)
         \o RequiredProjectIds(Tail(files))

\* the first loop: file_mapping, a HashMap project_id -> file_id in which a
\* later insert for the same project replaces the earlier one
RECURSIVE FileMapping(_)
FileMapping(files) ==
    IF files = <<>> THEN <<>>
    ELSE LET before == FileMapping(SubSeq(files, 1, Len(files) - 1))
             entry == files[Len(files)]
         IN IF ~entry.required THEN before
            ELSE [p \in DOMAIN before \cup {entry.project_id} |->
                     IF p = entry.project_id THEN entry.file_id ELSE before[p]]

\* the Mod pushed for one element of mods_response.data, or nothing
ResolvedMod(project_id, file_mapping, details) ==
    IF project_id \notin DOMAIN file_mapping THEN <<>>
    ELSE IF file_mapping[project_id] \notin details THEN <<>>
    ELSE << [project_id |-> project_id, file_id |-> file_mapping[project_id],
             enabled |-> TRUE] >>

RECURSIVE ResolvedMods(_, _, _)
ResolvedMods(mods, file_mapping, details) ==
    IF mods = <<>> THEN <<>>
    ELSE ResolvedMod(Head(mods), file_mapping, details)
         \o ResolvedMods(Tail(mods), file_mapping, details)

\* orders of a set of project ids in which the service can list them
Orderings(ids) ==
    {q \in SeqsUpTo(ids, Cardinality(ids)) :
        Len(q) = Cardinality(ids) /\ \A p \in ids : \E i \in DOMAIN q : q[i] = p}

\* the first loop, the early return and get_mods_by_ids: the service lists
\* the projects it was asked for and knows, each once, or the call fails
MfGetMods ==
    /\ mfPc = "called"
    /\ IF RequiredProjectIds(mfFiles) = <<>>
       THEN mfPc' = "ok" /\ UNCHANGED <<mfMods, mfCalls>>
       ELSE /\ mfCalls' = [mfCalls EXCEPT !.projects = @ + 1]
            /\ \/ mfPc' = "failed" /\ UNCHANGED mfMods
               \/ /\ mfPc' = "mods_received"
                  /\ mfMods' \in Orderings(Range(RequiredProjectIds(mfFiles))
                                            \cap mfPlatform.projects)
    /\ UNCHANGED <<mfPlatform, mfFiles, mfDetails, mfResult>>

\* get_files_by_ids on the values of file_mapping
MfGetFiles ==
    /\ mfPc = "mods_received"
    /\ mfCalls' = [mfCalls EXCEPT !.files = @ + 1]
    /\ \/ mfPc' = "failed" /\ UNCHANGED mfDetails
       \/ /\ mfPc' = "files_received"
          /\ mfDetails' = Range(FileMapping(mfFiles)) \cap mfPlatform.files
    /\ UNCHANGED <<mfPlatform, mfFiles, mfMods, mfResult>>

\* the loop over mods_response.data and Ok(mods_to_add)
MfBuildMods ==
    /\ mfPc = "files_received"
    /\ mfResult' = ResolvedMods(mfMods, FileMapping(mfFiles), mfDetails)
    /\ mfPc' = "ok"
    /\ UNCHANGED <<mfPlatform, mfFiles, mfMods, mfDetails, mfCalls>>

IdleManifest ==
    /\ mfPlatform = [projects |-> {}, files |-> {}]
    /\ mfFiles = <<>>
    /\ mfMods = <<>>
    /\ mfDetails = {}
    /\ mfPc = "idle"
    /\ mfCalls = [projects |-> 0, files |-> 0]
    /\ mfResult = <<>>

(***************************************************************************)
(* The network calls of the CurseForge adapter (integrations/curseforge.rs)*)
(***************************************************************************)
\* calls that read the body as text, then test the status, then parse
TextFirstCalls == {"search_mods", "get_mod_files", "get_mods_by_ids", "get_files_by_ids",
                   "check_mod_updates_bulk"}
\* calls that test the status first and parse with response.json()
StatusFirstCalls == {"get_file_details", "get_mod_info"}

\* StatusCode::is_success
is_success(status) == status >= 200 /\ status < 300

\* HTTP_CLIENT...send().await: a response, or a transport error
ApiSend ==
    /\ apiPc = "called"
    /\ \/ apiPc' = "responded" /\ apiResult' = apiResult
       \/ apiPc' = "returned" /\ apiResult' = "err_request"
    /\ UNCHANGED <<apiFn, apiStatus, apiBodyReadable, apiBodyDecodes, apiEvents>>

\* response.text().await? of a text-first call
ApiReadText ==
    /\ apiFn \in TextFirstCalls
    /\ apiPc = "responded"
    /\ apiEvents' = Append(apiEvents, "body")
    /\ IF apiBodyReadable
       THEN apiPc' = "body_read" /\ apiResult' = apiResult
       ELSE apiPc' = "returned" /\ apiResult' = "err_body"
    /\ UNCHANGED <<apiFn, apiStatus, apiBodyReadable, apiBodyDecodes>>

\* if !status.is_success() of a text-first call
ApiCheckStatusOfText ==
    /\ apiFn \in TextFirstCalls
    /\ apiPc = "body_read"
    /\ apiEvents' = Append(apiEvents, "status")
    /\ IF is_success(apiStatus)
       THEN apiPc' = "status_ok" /\ apiResult' = apiResult
       ELSE apiPc' = "returned" /\ apiResult' = "err_http"
    /\ UNCHANGED <<apiFn, apiStatus, apiBodyReadable, apiBodyDecodes>>

\* serde_json::from_str(&response_text) of a text-first call
ApiParseText ==
    /\ apiFn \in TextFirstCalls
    /\ apiPc = "status_ok"
    /\ apiEvents' = Append(apiEvents, "parse")
    /\ apiResult' = IF apiBodyDecodes THEN "parsed" ELSE "err_decode"
    /\ apiPc' = "returned"
    /\ UNCHANGED <<apiFn, apiStatus, apiBodyReadable, apiBodyDecodes>>

\* if !status.is_success() of a status-first call: on an error status the
\* body is read with unwrap_or_default for the message
ApiCheckStatusFirst ==
    /\ apiFn \in StatusFirstCalls
    /\ apiPc = "responded"
    /\ IF is_success(apiStatus)
       THEN /\ apiEvents' = Append(apiEvents, "status")
            /\ apiPc' = "status_ok"
            /\ apiResult' = apiResult
       ELSE /\ apiEvents' = apiEvents \o <<"status", "body">>
            /\ apiPc' = "returned"
            /\ apiResult' = "err_http"
    /\ UNCHANGED <<apiFn, apiStatus, apiBodyReadable, apiBodyDecodes>>

\* response.json().await of a status-first call: the body is read in full
\* and parsed; either failure is reported as a parse failure
ApiJson ==
    /\ apiFn \in StatusFirstCalls
    /\ apiPc = "status_ok"
    /\ IF apiBodyReadable
       THEN /\ apiEvents' = apiEvents \o <<"body", "parse">>
            /\ apiResult' = IF apiBodyDecodes THEN "parsed" ELSE "err_decode"
       ELSE /\ apiEvents' = Append(apiEvents, "body")
            /\ apiResult' = "err_decode"
    /\ apiPc' = "returned"
    /\ UNCHANGED <<apiFn, apiStatus, apiBodyReadable, apiBodyDecodes>>

IdleApi ==
    /\ apiFn = "search_mods"
    /\ apiStatus = 200
    /\ apiBodyReadable = TRUE
    /\ apiBodyDecodes = TRUE
    /\ apiPc = "idle"
    /\ apiEvents = <<>>
    /\ apiResult = "none"

(***************************************************************************)
(* launch_profile / abort_profile_launch (commands/profile_command.rs)     *)
(***************************************************************************)
ProfileIds == {1, 2}
LaunchCalls == 1..MaxLaunches

\* launch_profile(id) up to the account lookup: the profile is loaded and
\* the active account is found
LaunchCall(k, id) ==
    /\ lpPc[k] = "idle"
    /\ lpId' = [lpId EXCEPT ![k] = id]
    /\ lpPc' = [lpPc EXCEPT ![k] = "called"]
    /\ UNCHANGED <<lpTask, launching_processes, lpAbort>>

\* launch_profile(id) that finds no profile or no active account: it returns
\* the error before anything is spawned
LaunchNoCredentials(k, id) ==
    /\ lpPc[k] = "idle"
    /\ lpId' = [lpId EXCEPT ![k] = id]
    /\ lpPc' = [lpPc EXCEPT ![k] = "failed"]
    /\ UNCHANGED <<lpTask, launching_processes, lpAbort>>

\* tokio::spawn of the install task: the task is runnable from here on,
\* on any worker thread of the runtime
LaunchSpawn(k) ==
    /\ lpPc[k] = "called"
    /\ lpPc' = [lpPc EXCEPT ![k] = "spawned"]
    /\ lpTask' = [lpTask EXCEPT ![k] = "installing"]
    /\ UNCHANGED <<lpId, launching_processes, lpAbort>>

\* add_launching_process(profile_id, handle), then Ok(()): the handle is
\* stored under the profile id, replacing any handle stored there
LaunchAdd(k) ==
    /\ lpPc[k] = "spawned"
    /\ launching_processes' = [launching_processes EXCEPT ![lpId[k]] = k]
    /\ lpPc' = [lpPc EXCEPT ![k] = "returned"]
    /\ UNCHANGED <<lpId, lpTask, lpAbort>>

\* the task: install_minecraft_version(..).await ends, with Ok or Err
TaskInstall(k) ==
    /\ lpTask[k] = "installing"
    /\ lpTask' = [lpTask EXCEPT ![k] = "installed"]
    /\ UNCHANGED <<lpId, lpPc, launching_processes, lpAbort>>

\* the task: State::get, then remove_launching_process(profile_id), which
\* removes whatever handle is stored under the profile id
TaskRemove(k) ==
    /\ lpTask[k] = "installed"
    /\ launching_processes' = [launching_processes EXCEPT ![lpId[k]] = 0]
    /\ lpTask' = [lpTask EXCEPT ![k] = "emitting"]
    /\ UNCHANGED <<lpId, lpPc, lpAbort>>

\* the task: emit_event(..).await of either arm, then the task ends
TaskEmit(k) ==
    /\ lpTask[k] = "emitting"
    /\ lpTask' = [lpTask EXCEPT ![k] = "done"]
    /\ UNCHANGED <<lpId, lpPc, launching_processes, lpAbort>>

\* abort_profile_launch(profile_id): an error when no handle is stored for
\* the profile, else the stored handle is aborted and removed; an aborted
\* task that has not ended stops at its next await
AbortProfileLaunch(id) ==
    /\ IF launching_processes[id] = 0
       THEN /\ lpAbort' = "no_active_launch"
            /\ UNCHANGED <<lpTask, launching_processes>>
       ELSE /\ lpAbort' = "aborted"
            /\ launching_processes' = [launching_processes EXCEPT ![id] = 0]
            /\ lpTask' = [lpTask EXCEPT ![launching_processes[id]] =
                              IF @ = "done" THEN "done" ELSE "aborted"]
    /\ UNCHANGED <<lpId, lpPc>>

IdleLaunch ==
    /\ lpId = [k \in LaunchCalls |-> 0]
    /\ lpPc = [k \in LaunchCalls |-> "idle"]
    /\ lpTask = [k \in LaunchCalls |-> "none"]
    /\ launching_processes = [id \in ProfileIds |-> 0]
    /\ lpAbort = "none"

(***************************************************************************)
(* Specifications: one per operation                                       *)
(***************************************************************************)
InitSyncVars ==
    /\ dir \in [FileNames -> {0, OldContent}]
    /\ cache \in [CachePaths -> {0, CachedContent}]
    /\ target_mods \in SeqsUpTo(TargetMod, MaxTargetMods)
    /\ locked \in {{}} \cup {{f} : f \in FileNames}
    /\ syncPc = "idle"
    /\ mods_to_remove = {}
    /\ mods_to_add = {}
    /\ dir0 = dir
    /\ removed = {}
    /\ copied = {}
    /\ syncRuns = 0
    /\ prevOk = FALSE

InitSync == InitSyncVars /\ IdlePath /\ IdleUpd /\ IdleDl /\ IdleEx /\ IdleUni /\ IdleLoader /\ IdleSwitch /\ IdleMemory /\ IdleManifest /\ IdleApi /\ IdleLaunch

NextSync ==
    \/ SyncBegin /\ UNCHANGED notSyncVars
    \/ (\E f \in FileNames : SyncRemove(f)) /\ UNCHANGED notSyncVars
    \/ SyncRemoveDone /\ UNCHANGED notSyncVars
    \/ (\E f \in FileNames : SyncCopy(f)) /\ UNCHANGED notSyncVars
    \/ SyncReturnOk /\ UNCHANGED notSyncVars

SpecSync == InitSync /\ [][NextSync]_vars

InitPath ==
    /\ IdleLaunch
    /\ IdleApi
    /\ IdleManifest
    /\ IdleMemory
    /\ IdleSwitch
    /\ IdleLoader
    /\ IdleUni
    /\ IdleSync
    /\ IdleUpd
    /\ IdleDl
    /\ IdleEx
    /\ windows \in BOOLEAN
    /\ entry_filename \in
            {overrides_prefix \o r : r \in SeqsUpTo(PathChars, MaxPathLen)}
            \cup SeqsUpTo(PathChars \cup {"overrides"}, 2)
    /\ pathPc = "listing"
    /\ final_dest_path = <<>>

NextPath ==
    \/ ListEntry /\ UNCHANGED notPathVars

SpecPath == InitPath /\ [][NextPath]_vars

InitUpd ==
    /\ IdleLaunch
    /\ IdleApi
    /\ IdleManifest
    /\ IdleMemory
    /\ IdleSwitch
    /\ IdleLoader
    /\ IdleUni
    /\ IdleSync
    /\ IdlePath
    /\ IdleDl
    /\ IdleEx
    /\ uReq \in [game_versions : {{"1.21"}}, loaders : {{"fabric"}, {"neoforge", "quilt"}}]
    /\ uResp \in Responses(MaxLatestFiles, MaxMatches)
    /\ uMods \in {{10, 20}, {20}}
    /\ uPc = "fingerprints"
    /\ uBest = <<>>
    /\ uUpdates = <<>>
    /\ uResult = <<>>

NextUpd ==
    \/ CfFingerprintCall /\ UNCHANGED notUpdVars
    \/ CfGetModsAndProcess /\ UNCHANGED notUpdVars
    \/ CfConvert /\ UNCHANGED notUpdVars

SpecUpd == InitUpd /\ [][NextUpd]_vars

InitDl ==
    /\ IdleLaunch
    /\ IdleApi
    /\ IdleManifest
    /\ IdleMemory
    /\ IdleSwitch
    /\ IdleLoader
    /\ IdleUni
    /\ IdleSync
    /\ IdlePath
    /\ IdleUpd
    /\ IdleEx
    /\ service \in {"mods", "pack"}
    /\ concurrent_downloads \in {1, DEFAULT_CONCURRENT_MOD_DOWNLOADS}
    /\ profile_mods \in SeqsUpTo(IF service = "mods" THEN ProfileEntries ELSE PackEntries,
                                 MaxProfileMods)
    /\ dlCache \in {[f \in CacheFileNames |-> 0],
                    [f \in CacheFileNames |-> IF f = "m.jar" THEN 1 ELSE 0]}
    /\ dlPc = "idle"
    /\ dlTasks = <<>>
    /\ dlResults = <<>>
    /\ dlErr = 0
    /\ dlFetched = {}
    /\ dlCache0 = dlCache
    /\ dlCalls = 0

NextDl ==
    \/ DlBegin /\ UNCHANGED notDlVars
    \/ (\E i \in DOMAIN dlTasks : DlTaskStart(i)) /\ UNCHANGED notDlVars
    \/ (\E i \in DOMAIN dlTasks : DlTaskFinish(i)) /\ UNCHANGED notDlVars
    \/ DlReturn /\ UNCHANGED notDlVars

SpecDl == InitDl /\ [][NextDl]_vars

InitExVars ==
    /\ io_permits \in 1..MaxIoPermits
    /\ io_semaphore = io_permits
    /\ is_entry_dir \in SeqsUpTo(BOOLEAN, MaxOverrideEntries)
    /\ exPc = "idle"
    /\ extraction_tasks = <<>>
    /\ exDisk = {}
    /\ exErr = [unit |-> 0, kind |-> "none"]

InitExtract == IdleSync /\ IdlePath /\ IdleUpd /\ IdleDl /\ InitExVars /\ IdleUni /\ IdleLoader /\ IdleSwitch /\ IdleMemory /\ IdleManifest /\ IdleApi /\ IdleLaunch

NextExtract ==
    \/ ExBegin /\ UNCHANGED notExVars
    \/ ExSpawn /\ UNCHANGED notExVars
    \/ ExListed /\ UNCHANGED notExVars
    \/ (\E u \in DOMAIN extraction_tasks : UnitAcquire(u)) /\ UNCHANGED notExVars
    \/ (\E u \in DOMAIN extraction_tasks : UnitFinish(u)) /\ UNCHANGED notExVars
    \/ (\E u \in DOMAIN extraction_tasks : UnitFail(u)) /\ UNCHANGED notExVars
    \/ (\E u \in DOMAIN extraction_tasks : UnitPanic(u)) /\ UNCHANGED notExVars
    \/ ExJoinPanicked /\ UNCHANGED notExVars
    \/ ExJoinAll /\ UNCHANGED notExVars

SpecExtract == InitExtract /\ [][NextExtract]_vars

\* the scheduling of an extract call: the caller runs whenever it can, a
\* unit waiting for a permit gets one when one stays free (the tokio
\* semaphore serves its waiters in order), and the I/O of a unit that holds
\* a permit ends, with Ok, with Err or by a panic
FairExtract ==
    /\ WF_vars(ExBegin /\ UNCHANGED notExVars)
    /\ WF_vars(ExSpawn /\ UNCHANGED notExVars)
    /\ WF_vars(ExListed /\ UNCHANGED notExVars)
    /\ WF_vars(ExJoinPanicked /\ UNCHANGED notExVars)
    /\ WF_vars(ExJoinAll /\ UNCHANGED notExVars)
    /\ \A u \in 1..MaxOverrideEntries :
        /\ WF_vars(u \in DOMAIN extraction_tasks /\ UnitAcquire(u) /\ UNCHANGED notExVars)
        /\ WF_vars(/\ u \in DOMAIN extraction_tasks
                   /\ UnitFinish(u) \/ UnitFail(u) \/ UnitPanic(u)
                   /\ UNCHANGED notExVars)

SpecExtractFair == SpecExtract /\ FairExtract

\* a download_mods_to_cache call and an extract_curseforge_overrides call of
\* the same application run side by side
InitPool ==
    /\ IdleLaunch
    /\ IdleApi
    /\ IdleManifest
    /\ IdleMemory
    /\ IdleSwitch
    /\ IdleLoader
    /\ IdleUni
    /\ IdleSync
    /\ IdlePath
    /\ IdleUpd
    /\ InitExVars
    /\ \A u \in DOMAIN is_entry_dir : ~is_entry_dir[u]
    /\ service = "mods"
    /\ concurrent_downloads \in {1, DEFAULT_CONCURRENT_MOD_DOWNLOADS}
    /\ profile_mods = [i \in 1..MaxProfileMods |->
                        [enabled |-> TRUE,
                         source |-> [kind |-> "Modrinth", file_name |-> "m.jar",
                                     download_url |-> "u1", sha1 |-> "none"]]]
    /\ dlCache = [f \in CacheFileNames |-> 0]
    /\ dlPc = "idle"
    /\ dlTasks = <<>>
    /\ dlResults = <<>>
    /\ dlErr = 0
    /\ dlFetched = {}
    /\ dlCache0 = dlCache
    /\ dlCalls = 0

NextPool ==
    \/ DlBegin /\ UNCHANGED <<notPoolVars, exVars>>
    \/ (\E i \in DOMAIN dlTasks : DlTaskStart(i)) /\ UNCHANGED <<notPoolVars, exVars>>
    \/ (\E i \in DOMAIN dlTasks : DlTaskFinish(i)) /\ UNCHANGED <<notPoolVars, exVars>>
    \/ DlReturn /\ UNCHANGED <<notPoolVars, exVars>>
    \/ ExBegin /\ UNCHANGED <<notPoolVars, dlVars>>
    \/ ExSpawn /\ UNCHANGED <<notPoolVars, dlVars>>
    \/ ExListed /\ UNCHANGED <<notPoolVars, dlVars>>
    \/ (\E u \in DOMAIN extraction_tasks : UnitAcquire(u)) /\ UNCHANGED <<notPoolVars, dlVars>>
    \/ (\E u \in DOMAIN extraction_tasks : UnitFinish(u)) /\ UNCHANGED <<notPoolVars, dlVars>>
    \/ (\E u \in DOMAIN extraction_tasks : UnitFail(u)) /\ UNCHANGED <<notPoolVars, dlVars>>
    \/ (\E u \in DOMAIN extraction_tasks : UnitPanic(u)) /\ UNCHANGED <<notPoolVars, dlVars>>
    \/ ExJoinPanicked /\ UNCHANGED <<notPoolVars, dlVars>>
    \/ ExJoinAll /\ UNCHANGED <<notPoolVars, dlVars>>

SpecPool == InitPool /\ [][NextPool]_vars

\* the fingerprints an answer names
ResponseFingerprints(resp) ==
    Range(resp.exact_fingerprints)
    \cup UNION {Range(resp.partial_match_fingerprints[id]) :
                    id \in DOMAIN resp.partial_match_fingerprints}

NoMatches ==
    [exact_matches |-> <<>>, exact_fingerprints |-> <<>>,
     partial_matches |-> <<>>, partial_match_fingerprints |-> <<>>]

\* check_mod_updates_unified: the CurseForge service answers about the
\* fingerprints it was sent
InitUnified ==
    /\ IdleLaunch
    /\ IdleApi
    /\ IdleManifest
    /\ IdleMemory
    /\ IdleSwitch
    /\ IdleLoader
    /\ IdleSync
    /\ IdlePath
    /\ IdleDl
    /\ IdleEx
    /\ uHashReq \in HashRequests
    /\ mrResp \in ModrinthResponses(group_hashes_by_platform(uHashReq).modrinth_hashes)
    /\ mrOut = [status |-> "pending", updates |-> EmptyMap]
    /\ uniPc = "called"
    /\ all_updates = EmptyMap
    /\ uReq = [game_versions |-> {"1.21"}, loaders |-> {"fabric"}]
    /\ uResp \in IF SentFingerprints(uHashReq) = {} THEN {NoMatches}
                 ELSE {r \in Responses(1, 2) :
                            ResponseFingerprints(r) \subseteq SentFingerprints(uHashReq)}
    /\ uMods = {10, 20}
    /\ uPc = "idle"
    /\ uBest = <<>>
    /\ uUpdates = <<>>
    /\ uResult = <<>>

NextUnified ==
    \/ UniBegin /\ UNCHANGED notUniUpdVars
    \/ ModrinthCheck /\ UNCHANGED notUniUpdVars
    \/ CfFingerprintCall /\ UNCHANGED notUpdVars
    \/ CfGetModsAndProcess /\ UNCHANGED notUpdVars
    \/ CfConvert /\ UNCHANGED notUpdVars
    \/ UniJoin /\ UNCHANGED notUniUpdVars

SpecUnified == InitUnified /\ [][NextUnified]_vars

InitLoader ==
    /\ IdleLaunch
    /\ IdleApi
    /\ IdleManifest
    /\ IdleMemory
    /\ IdleSwitch
    /\ IdleSync /\ IdlePath /\ IdleUpd /\ IdleDl /\ IdleEx /\ IdleUni
    /\ rlProfile \in Profiles
    /\ rlMinecraft \in MinecraftVersions
    /\ rlPack \in Packs(MaxPolicyEntries)
    /\ rlPc = "called"
    /\ rlResult = ResolvedLoaderVersion(NoVersion, "NotResolved")

NextLoader == ResolveLoaderVersion /\ UNCHANGED notLoaderVars

SpecLoader == InitLoader /\ [][NextLoader]_vars

InitSwitch ==
    /\ IdleLaunch
    /\ IdleApi
    /\ IdleManifest
    /\ IdleMemory
    /\ IdleSync /\ IdlePath /\ IdleUpd /\ IdleDl /\ IdleEx /\ IdleUni /\ IdleLoader
    /\ swProfile \in SeqsUpTo(ProfileModEntries, MaxSwitchMods)
    /\ swManifest \in SeqsUpTo(ManifestModEntries, MaxSwitchMods)
    /\ swLocal = <<>>
    /\ swNew = <<>>
    /\ swPc = "called"
    /\ swSaved = NotSaved
    /\ swGame \in GameVersions
    /\ swManifestGame \in GameVersions
    /\ swLocalGame = ""
    /\ swFailedAt = "none"
    /\ swOverridesOnDisk = FALSE

NextSwitch ==
    \/ SwDownload /\ UNCHANGED notSwitchVars
    \/ SwGetProfile /\ UNCHANGED notSwitchVars
    \/ SwProcessPack /\ UNCHANGED notSwitchVars
    \/ SwUpdateMods /\ UNCHANGED notSwitchVars
    \/ SwExtractOverrides /\ UNCHANGED notSwitchVars
    \/ SwUpdateProfile /\ UNCHANGED notSwitchVars

SpecSwitch == InitSwitch /\ [][NextSwitch]_vars

InitMemory ==
    /\ IdleLaunch
    /\ IdleApi
    /\ IdleManifest
    /\ IdleSync /\ IdlePath /\ IdleUpd /\ IdleDl /\ IdleEx /\ IdleUni /\ IdleLoader
    /\ IdleSwitch
    /\ system_ram_mb \in {512 * k : k \in 0..MaxSystemRam}
    /\ recommended_ram_mb \in {NoRam} \cup {SomeRam(512 * k) : k \in 0..MaxRecommendedRam}
    /\ memPc = "called"
    /\ memory_settings = MemorySettings(0)

NextMemory == DetermineMemorySettings /\ UNCHANGED notMemoryVars

SpecMemory == InitMemory /\ [][NextMemory]_vars

InitManifest ==
    /\ IdleLaunch
    /\ IdleApi
    /\ IdleSync /\ IdlePath /\ IdleUpd /\ IdleDl /\ IdleEx /\ IdleUni /\ IdleLoader
    /\ IdleSwitch /\ IdleMemory
    /\ mfPlatform \in [projects : SUBSET {10, 20}, files : SUBSET {1, 2}]
    /\ mfFiles \in SeqsUpTo(ManifestFileEntries, MaxManifestFiles)
    /\ mfMods = <<>>
    /\ mfDetails = {}
    /\ mfPc = "called"
    /\ mfCalls = [projects |-> 0, files |-> 0]
    /\ mfResult = <<>>

NextManifest ==
    \/ MfGetMods /\ UNCHANGED notManifestVars
    \/ MfGetFiles /\ UNCHANGED notManifestVars
    \/ MfBuildMods /\ UNCHANGED notManifestVars

SpecManifest == InitManifest /\ [][NextManifest]_vars

InitApi ==
    /\ IdleLaunch
    /\ IdleSync /\ IdlePath /\ IdleUpd /\ IdleDl /\ IdleEx /\ IdleUni /\ IdleLoader
    /\ IdleSwitch /\ IdleMemory /\ IdleManifest
    /\ apiFn \in TextFirstCalls \cup StatusFirstCalls
    /\ apiStatus \in {200, 204, 301, 404, 500}
    /\ apiBodyReadable \in BOOLEAN
    /\ apiBodyDecodes \in BOOLEAN
    /\ apiPc = "called"
    /\ apiEvents = <<>>
    /\ apiResult = "none"

NextApi ==
    \/ ApiSend /\ UNCHANGED notApiVars
    \/ ApiReadText /\ UNCHANGED notApiVars
    \/ ApiCheckStatusOfText /\ UNCHANGED notApiVars
    \/ ApiParseText /\ UNCHANGED notApiVars
    \/ ApiCheckStatusFirst /\ UNCHANGED notApiVars
    \/ ApiJson /\ UNCHANGED notApiVars

SpecApi == InitApi /\ [][NextApi]_vars

InitLaunch ==
    /\ IdleSync /\ IdlePath /\ IdleUpd /\ IdleDl /\ IdleEx /\ IdleUni /\ IdleLoader
    /\ IdleSwitch /\ IdleMemory /\ IdleManifest /\ IdleApi
    /\ IdleLaunch

NextLaunch ==
    \/ \E k \in LaunchCalls, id \in ProfileIds : LaunchCall(k, id) /\ UNCHANGED notLaunchVars
    \/ \E k \in LaunchCalls, id \in ProfileIds : LaunchNoCredentials(k, id) /\ UNCHANGED notLaunchVars
    \/ \E k \in LaunchCalls : LaunchSpawn(k) /\ UNCHANGED notLaunchVars
    \/ \E k \in LaunchCalls : LaunchAdd(k) /\ UNCHANGED notLaunchVars
    \/ \E k \in LaunchCalls : TaskInstall(k) /\ UNCHANGED notLaunchVars
    \/ \E k \in LaunchCalls : TaskRemove(k) /\ UNCHANGED notLaunchVars
    \/ \E k \in LaunchCalls : TaskEmit(k) /\ UNCHANGED notLaunchVars
    \/ \E id \in ProfileIds : AbortProfileLaunch(id) /\ UNCHANGED notLaunchVars

SpecLaunch == InitLaunch /\ [][NextLaunch]_vars

(***************************************************************************)
(* Claims about sync_mods_to_profile                                       *)
(***************************************************************************)

Thm_C9_SyncFrame ==
    LET existing0 == ExistingFilenames(dir0)
        required == RequiredFilenames(target_mods)
    IN syncPc # "idle" =>
        /\ \A f \in existing0 \cap required :
                dir[f] = dir0[f] /\ f \notin removed /\ f \notin copied
        /\ removed \subseteq existing0 \ required
        /\ copied \subseteq required \ existing0
        /\ \A f \in removed : dir[f] = 0
        /\ \A f \in copied : dir[f] = cache[RequiredMods(target_mods)[f]]
        /\ syncPc = "ok" => /\ removed = existing0 \ required
                            /\ copied = required \ existing0

\* a.jar removed, c.jar copied, b.jar kept although its cached file differs
Wit_C9_KeptFileDiffers ==
    /\ syncPc = "ok"
    /\ removed # {} /\ copied # {}
    /\ \E f \in ExistingFilenames(dir0) \cap RequiredFilenames(target_mods) :
            /\ cache[RequiredMods(target_mods)[f]] # 0
            /\ cache[RequiredMods(target_mods)[f]] # dir[f]

\* C10: the call never returns Ok while a name of required minus current is
\* missing from the directory: every such name was copied from a readable
\* cache file, and an entry of to_add is only ever dropped by copying it.
Thm_C10_SyncNeverSkips ==
    LET toAdd0 == RequiredFilenames(target_mods) \ ExistingFilenames(dir0)
    IN /\ syncPc = "ok" =>
            \A f \in toAdd0 : /\ cache[RequiredMods(target_mods)[f]] # 0
                              /\ dir[f] # 0
       /\ syncPc \in {"removing", "adding"} => toAdd0 = mods_to_add \cup copied

\* the call failed in the copy loop on a cache path that cannot be read
Wit_C10_CopyFails ==
    /\ syncPc = "err"
    /\ mods_to_remove = {}
    /\ \E f \in mods_to_add : cache[RequiredMods(target_mods)[f]] = 0
    /\ \E f \in FileNames : f \in copied

(***************************************************************************)
(* Claims about the destination of an override entry                       *)
(***************************************************************************)
PathAfterPrefix == SubSeq(entry_filename, Len(overrides_prefix) + 1, Len(entry_filename))

\* C2: for every entry name under the overrides prefix, the destination of a
\* queued entry is target_dir followed by at least one component, all of them
\* Normal (non-empty, not "..", no root, no prefix), so it lies inside
\* target_dir; an entry whose sanitized relative path is empty is skipped and
\* gets no destination.
Thm_C2_DestInsideTarget ==
    LET dest == Components(final_dest_path, windows)
        base == Components(target_dir(windows), windows)
    IN /\ pathPc = "queued" =>
            /\ StartsWith(entry_filename, overrides_prefix)
            /\ Len(dest) > Len(base)
            /\ SubSeq(dest, 1, Len(base)) = base
            /\ \A i \in (Len(base) + 1)..Len(dest) :
                    /\ dest[i].kind = "Normal"
                    /\ dest[i].str # <<>>
                    /\ dest[i].str # <<".", ".">>
                    /\ \A k \in DOMAIN dest[i].str : dest[i].str[k] \notin {"/", "\\"}
       /\ (pathPc \notin {"listing", "not_override"}
             /\ \A c \in {Components(PathAfterPrefix, windows)[i] :
                            i \in DOMAIN Components(PathAfterPrefix, windows)} :
                    c.kind # "Normal" \/ \A k \in DOMAIN c.str : c.str[k] \in IllegalChars \cup {"."})
            => pathPc = "skipped"
       /\ pathPc = "skipped" => final_dest_path = <<>>

\* an entry name with a root marker and a ".." segment was queued
Wit_C2_CraftedNameQueued ==
    /\ pathPc = "queued"
    /\ PathAfterPrefix[1] = "/"
    /\ \E i \in DOMAIN Components(PathAfterPrefix, windows) :
            Components(PathAfterPrefix, windows)[i].kind = "ParentDir"
    /\ ~windows

(***************************************************************************)
(* Claims about the CurseForge update check                                *)
(***************************************************************************)
\* the claim's two filters, stated on a file and the caller's request
Compatible(file) ==
    /\ file.gameVersions \cap uReq.game_versions # {}
    /\ \E t \in file.gameVersions : LoaderOfTag(t) \cap uReq.loaders # {}

MatchOf(b) ==
    IF b.kind = "exact" THEN uResp.exact_matches[b.index]
    ELSE uResp.partial_matches[b.index]

\* C3: every reported CurseForge update is a file of some match's latestFiles
\* that has one of the caller's game versions and one of the caller's loaders;
\* a match whose latest files all fail a filter has no best file and yields no
\* update; the best file of a match is the first file of latest_files that
\* passes both filters.
Thm_C3_UpdatesAreCompatible ==
    /\ uPc \in {"bulk_done", "done"} =>
        /\ \A i \in DOMAIN uUpdates :
            /\ uUpdates[i].game_versions \cap uReq.game_versions # {}
            /\ extract_loaders_from_game_versions(uUpdates[i].game_versions)
                    \cap uReq.loaders # {}
            /\ \E k \in DOMAIN uBest :
                /\ MatchOf(uBest[k]).id = uUpdates[i].project_id
                /\ uBest[k].best.id = uUpdates[i].file_id
                /\ uBest[k].best.gameVersions = uUpdates[i].game_versions
                /\ \E j \in DOMAIN MatchOf(uBest[k]).latest_files :
                        /\ MatchOf(uBest[k]).latest_files[j] = uBest[k].best
                        /\ Compatible(MatchOf(uBest[k]).latest_files[j])
        /\ \A k \in DOMAIN uBest :
            LET files == MatchOf(uBest[k]).latest_files
                passing == {j \in DOMAIN files : Compatible(files[j])}
            IN IF passing = {}
               THEN /\ uBest[k].best = NoFile
                    /\ (\A k2 \in DOMAIN uBest :
                            MatchOf(uBest[k2]).id = MatchOf(uBest[k]).id
                                => uBest[k2].best = NoFile)
                        => \A i \in DOMAIN uUpdates :
                                uUpdates[i].project_id # MatchOf(uBest[k]).id
               ELSE uBest[k].best = files[CHOOSE j \in passing : \A j2 \in passing : j <= j2]
        /\ Len(uUpdates) <= Cardinality({k \in DOMAIN uBest : uBest[k].best # NoFile})
    /\ uPc = "done" =>
        /\ DOMAIN uResult = {FingerprintKey(uUpdates[i].original_fingerprint) :
                                i \in DOMAIN uUpdates}
        /\ \A key \in DOMAIN uResult :
            /\ uResult[key].loaders \cap uReq.loaders # {}
            /\ uResult[key].game_versions \cap uReq.game_versions # {}

\* an update was reported for the second latest file, the first one being
\* newer but for another loader
Wit_C3_SecondFileReported ==
    /\ uPc = "done"
    /\ uResult # <<>>
    /\ Len(uResp.exact_matches) = 1
    /\ Len(uResp.exact_matches[1].latest_files) = 2
    /\ ~Compatible(uResp.exact_matches[1].latest_files[1])
    /\ uResp.exact_matches[1].latest_files[1].fileDate
            > uResp.exact_matches[1].latest_files[2].fileDate
    /\ uBest[1].best = uResp.exact_matches[1].latest_files[2]

Cx_C5_PlatformEntriesCached ==
    (service = "mods" /\ dlPc = "ok") =>
        \A i \in DOMAIN profile_mods :
            (profile_mods[i].enabled
                /\ profile_mods[i].source.kind \in {"Modrinth", "CurseForge"})
            => dlCache[profile_mods[i].source.file_name] # 0

\* C6: a call returns only when every queued task has ended (none is left
\* unstarted or in flight, whatever failed before); it returns Ok iff no task
\* failed, and otherwise the error of the first failed task in result order.
Thm_C6_RunToCompletion ==
    dlPc \in {"ok", "err"} =>
        /\ \A i \in DOMAIN profile_mods :
            IF profile_mods[i].enabled
            THEN /\ dlTasks[i] \in {"ok", "err"}
                 /\ \E k \in DOMAIN dlResults :
                        dlResults[k].task = i /\ dlResults[k].result = dlTasks[i]
            ELSE dlTasks[i] = "none"
        /\ dlPc = "ok" <=> \A i \in DOMAIN dlTasks : dlTasks[i] # "err"
        /\ dlPc = "ok" => dlErr = 0
        /\ dlPc = "err" =>
            \E k \in DOMAIN dlResults :
                /\ dlResults[k].task = dlErr
                /\ dlResults[k].result = "err"
                /\ \A j \in 1..(k - 1) : dlResults[j].result # "err"

\* the first task failed, the second one was started afterwards and fetched
\* its file, and the call returned the first task's error
Wit_C6_LaterTaskStillRuns ==
    /\ dlPc = "err"
    /\ concurrent_downloads = 1
    /\ Len(dlResults) = 2
    /\ dlResults[1] = [task |-> 1, result |-> "err"]
    /\ dlResults[2] = [task |-> 2, result |-> "ok"]
    /\ 2 \in dlFetched
    /\ dlCache[profile_mods[2].source.file_name] # 0
    /\ dlErr = 1

Cx_C8_ReturnsAfterAllUnits ==
    exPc \in {"ok", "err"} =>
        /\ Len(extraction_tasks) = Len(is_entry_dir)
        /\ Unfinished = {}
        /\ UnitsIn("ok") \subseteq exDisk
        /\ LET failed == UnitsIn("err") \cup UnitsIn("panic")
           IN IF failed = {} THEN exPc = "ok"
              ELSE /\ exPc = "err"
                   /\ exErr.unit \in failed
                   /\ \A v \in failed : exErr.unit <= v

(***************************************************************************)
(* Claims about check_mod_updates_unified                                  *)
(***************************************************************************)
\* C11 (as claimed): every key of the returned map is one of the hashes of
\* request.hashes.
Cx_C11_KeysAreSuppliedHashes ==
    uniPc = "ok" => DOMAIN all_updates \subseteq Range(uHashReq.hashes)

\* C11 (amended): a Modrinth result is keyed by the hash under which the
\* Modrinth answer lists it; a CurseForge result is keyed by the decimal
\* string of a fingerprint: one of the fingerprints derived from
\* hash_fingerprints and sent to the service, or 0 for a partial match
\* without an entry in partial_match_fingerprints.  Such a key is a supplied
\* hash only if the caller uses the fingerprint's decimal string as the hash.
Thm_C11_KeysByPlatform ==
    uniPc = "ok" =>
        \A k \in DOMAIN all_updates :
            IF all_updates[k].source = "Modrinth"
            THEN /\ k \in DOMAIN mrResp.versions
                 /\ k \in Range(group_hashes_by_platform(uHashReq).modrinth_hashes)
            ELSE \E fp \in SentFingerprints(uHashReq) \cup {0} :
                    /\ k = u64_to_string(fp)
                    /\ \E i \in DOMAIN uUpdates : uUpdates[i].original_fingerprint = fp

\* the result holds a Modrinth update under the supplied hash and a
\* CurseForge update under a fingerprint string that is no supplied hash
Wit_C11_FingerprintKeyReturned ==
    /\ uniPc = "ok"
    /\ \E k \in DOMAIN all_updates :
            all_updates[k].source = "Modrinth" /\ k \in Range(uHashReq.hashes)
    /\ \E k \in DOMAIN all_updates :
            /\ all_updates[k].source = "CurseForge"
            /\ k = u64_to_string(102)
            /\ k \notin Range(uHashReq.hashes)

\* C12: the call returns (always Ok) only when both checks have completed;
\* when exactly one check failed the result is the map of the other check,
\* and when both failed it is empty.
Thm_C12_FailureIsolation ==
    uniPc = "ok" =>
        /\ mrOut.status \in {"ok", "err"}
        /\ uPc \in {"skipped", "done", "err"}
        /\ (mrOut.status = "err" /\ uPc # "err") => all_updates = uResult
        /\ (mrOut.status = "ok" /\ uPc = "err") => all_updates = mrOut.updates
        /\ (mrOut.status = "err" /\ uPc = "err") => all_updates = EmptyMap
        /\ (mrOut.status = "ok" /\ uPc # "err") =>
                DOMAIN all_updates = DOMAIN mrOut.updates \cup DOMAIN uResult

\* the Modrinth check failed and the CurseForge updates were returned
Wit_C12_ModrinthFailedOnly ==
    /\ uniPc = "ok"
    /\ mrOut.status = "err"
    /\ uPc = "done"
    /\ uResult # EmptyMap
    /\ all_updates = uResult

(***************************************************************************)
(* Claims about the rules of check_mod_updates_bulk                        *)
(***************************************************************************)
\* what the claims say of one update: project, file and original fingerprint
Reported(update_info) ==
    [project_id |-> update_info.project_id,
     file_id |-> update_info.file_id,
     file_date |-> update_info.file_date,
     original_fingerprint |-> update_info.original_fingerprint]

\* the first file, in latest_files order, that passes both filters
FirstCompatible(files) ==
    LET passing == {j \in DOMAIN files : Compatible(files[j])}
    IN IF passing = {} THEN NoFile
       ELSE files[CHOOSE j \in passing : \A j2 \in passing : j <= j2]

\* the update the exact rule demands for the exact match at index i
ClaimedExact(i) ==
    LET match == uResp.exact_matches[i]
        best == FirstCompatible(match.latest_files)
    IN IF /\ match.id \in uMods
          /\ best # NoFile
          /\ (best.fileDate > match.file.fileDate \/ best.id # match.file.id)
       THEN << [project_id |-> match.id, file_id |-> best.id, file_date |-> best.fileDate,
                original_fingerprint |-> uResp.exact_fingerprints[i]] >>
       ELSE <<>>

\* the update the partial rule demands for the partial match at index i
ClaimedPartial(i) ==
    LET match == uResp.partial_matches[i]
        best == FirstCompatible(match.latest_files)
        fps == uResp.partial_match_fingerprints
    IN IF match.id \in uMods /\ best # NoFile
       THEN << [project_id |-> match.id, file_id |-> best.id, file_date |-> best.fileDate,
                original_fingerprint |->
                    IF match.id \in DOMAIN fps /\ fps[match.id] # <<>>
                    THEN fps[match.id][1] ELSE 0] >>
       ELSE <<>>

RECURSIVE ClaimedExactUpTo(_)
ClaimedExactUpTo(n) == IF n = 0 THEN <<>> ELSE ClaimedExactUpTo(n - 1) \o ClaimedExact(n)

RECURSIVE ClaimedPartialUpTo(_)
ClaimedPartialUpTo(n) ==
    IF n = 0 THEN <<>> ELSE ClaimedPartialUpTo(n - 1) \o ClaimedPartial(n)

ReportedUpdates == [i \in DOMAIN uUpdates |-> Reported(uUpdates[i])]

Thm_C14_PartialMatchRule ==
    uPc \in {"bulk_done", "done"} =>
        LET partial == ClaimedPartialUpTo(Len(uResp.partial_matches))
            n == Len(uUpdates)
        IN /\ n >= Len(partial)
           /\ SubSeq(ReportedUpdates, n - Len(partial) + 1, n) = partial
           /\ n - Len(partial) <= Len(uResp.exact_matches)
           /\ uResp.exact_matches = <<>> => ReportedUpdates = partial

\* a partial match was reported although its best file is the matched file
\* itself (same id, same date)
Wit_C14_SameFileReported ==
    /\ uPc = "bulk_done"
    /\ uResp.exact_matches = <<>>
    /\ Len(uResp.partial_matches) = 1
    /\ uBest[1].best = uResp.partial_matches[1].file
    /\ Len(uUpdates) = 1
    /\ uUpdates[1].file_id = uResp.partial_matches[1].file.id

(***************************************************************************)
(* Claims about resolve_loader_version                                     *)
(***************************************************************************)
OverrideApplies ==
    /\ rlProfile.settings.use_overwrite_loader_version
    /\ rlProfile.settings.overwrite_loader_version.some
    /\ rlProfile.settings.overwrite_loader_version.v # ""

\* the versions some entry of the selected pack's policy, or its default,
\* gives for the profile's loader
PackVersions ==
    IF rlPack.kind # "policy" THEN {}
    ELSE ({get_ver(rlPack.policy.by_minecraft[pat], rlProfile.loader) :
              pat \in WildcardKeys(rlPack.policy, rlMinecraft)
                      \cup PrefixKeys(rlPack.policy, rlMinecraft)
                      \cup (DOMAIN rlPack.policy.by_minecraft \cap {rlMinecraft})}
          \cup {get_ver(rlPack.policy.default, rlProfile.loader)}) \ {NoVersion}

\* C15: for a non-vanilla profile the result is the override when it is
\* enabled and non-empty; else a version of the pack policy for the loader
\* with reason pack policy when the policy yields one; else the stored
\* loader version when non-empty, with reason profile default; else no
\* version with reason not resolved.
Thm_C15_LoaderVersionPriority ==
    (rlPc = "returned" /\ rlProfile.loader # "vanilla") =>
        IF OverrideApplies
        THEN rlResult = [version |-> rlProfile.settings.overwrite_loader_version,
                         reason |-> "UserOverwrite"]
        ELSE IF PackVersions # {}
        THEN rlResult.reason = "NoriskPack" /\ rlResult.version \in PackVersions
        ELSE IF rlProfile.loader_version.some /\ rlProfile.loader_version.v # ""
        THEN rlResult = [version |-> rlProfile.loader_version, reason |-> "ProfileDefault"]
        ELSE rlResult = [version |-> NoVersion, reason |-> "NotResolved"]

\* the pack policy won over a non-empty stored loader version while a
\* non-empty override was present but disabled
Wit_C15_PackPolicyOverDefault ==
    /\ rlPc = "returned"
    /\ rlProfile.loader = "fabric"
    /\ ~rlProfile.settings.use_overwrite_loader_version
    /\ rlProfile.settings.overwrite_loader_version = SomeVersion("O")
    /\ rlProfile.loader_version = SomeVersion("P")
    /\ rlResult = [version |-> SomeVersion("D"), reason |-> "NoriskPack"]

\* a wildcard key as the claim reads it: "X.Y.*" stands for X.Y and its
\* patch versions, never for another minor version that begins with X.Y
ClaimedWildcardKeys ==
    {pat \in WildcardKeys(rlPack.policy, rlMinecraft) :
        \/ Len(rlMinecraft) = Len(pat) - 2
        \/ rlMinecraft[Len(pat) - 1] = "."}

\* the versions the claimed matcher order allows
ClaimedPolicyVersions ==
    LET by_minecraft == rlPack.policy.by_minecraft
        exact == {get_ver(by_minecraft[pat], rlProfile.loader) :
                     pat \in DOMAIN by_minecraft \cap {rlMinecraft}} \ {NoVersion}
        wildcard == {get_ver(by_minecraft[pat], rlProfile.loader) :
                        pat \in ClaimedWildcardKeys} \ {NoVersion}
        prefix == {get_ver(by_minecraft[pat], rlProfile.loader) :
                      pat \in PrefixKeys(rlPack.policy, rlMinecraft)} \ {NoVersion}
    IN IF exact # {} THEN exact
       ELSE IF wildcard # {} THEN wildcard
       ELSE IF prefix # {} THEN prefix
       ELSE {get_ver(rlPack.policy.default, rlProfile.loader)} \ {NoVersion}

\* C16 (as claimed): with a loader policy and no override, the version comes
\* from the exact entry, else from a matching "X.Y.*" entry (which does not
\* match another minor version such as 1.210 for "1.21.*"), else from a
\* literal-prefix entry, else from the pack default.
Cx_C16_MatcherOrder ==
    (/\ rlPc = "returned"
     /\ rlProfile.loader # "vanilla"
     /\ ~OverrideApplies
     /\ rlPack.kind = "policy") =>
        IF ClaimedPolicyVersions # {}
        THEN rlResult.reason = "NoriskPack" /\ rlResult.version \in ClaimedPolicyVersions
        ELSE rlResult.reason # "NoriskPack"

\* C17: a vanilla profile resolves to no version whatever the override, the
\* pack policy and the stored loader version are.
Thm_C17_VanillaNeedsNoVersion ==
    (rlPc = "returned" /\ rlProfile.loader = "vanilla") =>
        rlResult = [version |-> NoVersion, reason |-> "ProfileDefault"]

\* a vanilla profile with an enabled override, a pack default and a stored
\* loader version got no version
Wit_C17_VanillaWithEverythingSet ==
    /\ rlPc = "returned"
    /\ rlProfile.loader = "vanilla"
    /\ OverrideApplies
    /\ rlPack.kind = "policy"
    /\ rlPack.policy.default # <<>>
    /\ Pat_1_Star \in DOMAIN rlPack.policy.by_minecraft
    /\ rlProfile.loader_version = SomeVersion("P")
    /\ ~rlResult.version.some

(***************************************************************************)
(* Claims about switch_modpack_version                                     *)
(***************************************************************************)
\* the entries without a modpack-origin marker, in order
UserEntries(mods) == SelectSeq(mods, LAMBDA e : e.modpack_origin = "")

\* C18: when switch_modpack_version succeeds, the entry list it saved is the
\* previous entries without a modpack-origin marker, in their previous
\* order, followed by the entries of the new manifest; none of the entries
\* kept from the previous list has a marker, and nothing is saved otherwise.
Thm_C18_SwitchKeepsUserEntries ==
    /\ swPc = "ok" =>
          /\ swSaved.some
          /\ swSaved.mods = UserEntries(swProfile) \o swManifest
          /\ \A i \in 1..(Len(swSaved.mods) - Len(swManifest)) :
                 swSaved.mods[i] \in Range(swProfile) /\ swSaved.mods[i].modpack_origin = ""
    /\ swPc # "ok" => ~swSaved.some

\* a switch succeeded on a profile that held a modpack entry followed by a
\* user entry: the user entry is saved first, followed by two manifest entries
Wit_C18_UserEntriesKept ==
    /\ swPc = "ok"
    /\ Len(swProfile) = 2
    /\ swProfile[1].modpack_origin # ""
    /\ swProfile[2].modpack_origin = ""
    /\ Len(swManifest) = 2
    /\ swSaved.mods = <<swProfile[2], swManifest[1], swManifest[2]>>

(***************************************************************************)
(* Claims about the redirect of override entries below mods                *)
(***************************************************************************)
\* the names of the components of the destination below target_dir
NamesBelowTarget ==
    LET dest == Components(final_dest_path, windows)
        base == Len(Components(target_dir(windows), windows))
    IN [i \in 1..(Len(dest) - base) |-> dest[base + i].str]

\* C19 (as claimed): a queued override entry whose sanitized path begins with
\* the component mods goes to target_dir/custom_mods followed by the rest of
\* its path, every other entry goes to target_dir/<sanitized relative path>,
\* and no entry goes to target_dir/mods or below it.
Cx_C19_ModsRedirected ==
    pathPc = "queued" =>
        LET comps == SanitizedComponents(PathAfterPrefix, windows)
        IN /\ comps[1] = <<"mods">> =>
                  NamesBelowTarget = << <<"custom_mods">> >> \o Tail(comps)
           /\ comps[1] # <<"mods">> => NamesBelowTarget = comps
           /\ NamesBelowTarget[1] # <<"mods">>

(***************************************************************************)
(* Claims about determine_memory_settings                                  *)
(***************************************************************************)
\* C20 (as claimed): with a recommended value, the chosen memory is at most
\* the system memory minus 2048 MB, at least 1024 MB and at most 16384 MB,
\* all three at once.
Cx_C20_ThreeBoundsAtOnce ==
    (memPc = "returned" /\ recommended_ram_mb.some) =>
        /\ memory_settings.min = memory_settings.max
        /\ memory_settings.max <= system_ram_mb - 2048
        /\ memory_settings.max >= 1024
        /\ memory_settings.max <= 16384

\* C20: with a recommended value r and system memory s, min = max = m where
\* m is the smallest of r, s - 2048 (0 when s < 2048) and 16384, raised to
\* 1024 when smaller: 1024 <= m <= 16384 always, and m <= s - 2048 exactly
\* when s >= 3072; below that the floor of 1024 MB wins.
Thm_C20_FloorWins ==
    (memPc = "returned" /\ recommended_ram_mb.some) =>
        LET m == memory_settings.max
            s == system_ram_mb
            r == recommended_ram_mb.mb
            reserve == IF s >= 2048 THEN s - 2048 ELSE 0
            smallest == CHOOSE x \in {r, reserve, 16384} : \A y \in {r, reserve, 16384} : x <= y
        IN /\ memory_settings.min = m
           /\ m = (IF smallest < 1024 THEN 1024 ELSE smallest)
           /\ m >= 1024
           /\ m <= 16384
           /\ (m <= s - 2048) <=> (s >= 3072)

\* on a machine with 2560 MB the result is 1024 MB, more than the 512 MB
\* that remain after the reserve
Wit_C20_FloorAboveReserve ==
    /\ memPc = "returned"
    /\ system_ram_mb = 2560
    /\ recommended_ram_mb = SomeRam(4096)
    /\ memory_settings = [min |-> 1024, max |-> 1024]

(***************************************************************************)
(* Claims about resolve_curseforge_manifest_files                          *)
(***************************************************************************)
\* the required references whose project and file the platform lists when
\* it is asked for them in a bulk lookup
ResolvableReferences ==
    {[project_id |-> mfFiles[i].project_id, file_id |-> mfFiles[i].file_id] :
        i \in {j \in DOMAIN mfFiles : /\ mfFiles[j].required
                                      /\ mfFiles[j].project_id \in mfPlatform.projects
                                      /\ mfFiles[j].file_id \in mfPlatform.files}}

\* C21 (as claimed): at most one bulk project lookup and one bulk file
\* lookup are made, and a successful call that made both returns exactly one
\* enabled entry for every required reference whose project and file are in
\* the answers, with that reference's file id, also when two required
\* references share a project id, and no other entry.
Cx_C21_OneEntryPerReference ==
    /\ mfCalls.projects <= 1
    /\ mfCalls.files <= 1
    /\ (mfPc = "ok" /\ mfCalls.files = 1) =>
          /\ \A ref \in ResolvableReferences :
                 Cardinality({k \in DOMAIN mfResult :
                                 /\ mfResult[k].project_id = ref.project_id
                                 /\ mfResult[k].file_id = ref.file_id
                                 /\ mfResult[k].enabled}) = 1
          /\ \A k \in DOMAIN mfResult :
                 [project_id |-> mfResult[k].project_id, file_id |-> mfResult[k].file_id]
                     \in ResolvableReferences

(***************************************************************************)
(* Claims about the entries download_mods_to_cache skips, the cache file   *)
(* names it uses and colliding names                                       *)
(***************************************************************************)
NotFetchable(i) ==
    ~profile_mods[i].enabled \/ profile_mods[i].source.kind \in {"Local", "Embedded"}

\* C22: in download_mods_to_cache an enabled Local or Embedded entry and a
\* disabled entry of any kind is never fetched and never ends in an error;
\* a call on a profile that holds only such entries returns Ok.
Thm_C22_SkippedNotErrors ==
    (service = "mods" /\ dlPc # "idle") =>
        /\ \A i \in DOMAIN profile_mods :
              NotFetchable(i) =>
                  /\ i \notin dlFetched
                  /\ dlTasks[i] \notin {"fetching", "err"}
                  /\ dlErr # i
                  /\ \A k \in DOMAIN dlResults :
                         dlResults[k].task = i => dlResults[k].result = "ok"
        /\ (\A i \in DOMAIN profile_mods : NotFetchable(i)) => dlPc # "err"

\* a call on a profile with an enabled Local and an enabled Embedded entry
\* returned Ok without a fetch and left the cache as it was
Wit_C22_LocalAndEmbeddedSkipped ==
    /\ service = "mods" /\ dlPc = "ok"
    /\ Len(profile_mods) = 2
    /\ profile_mods[1].enabled /\ profile_mods[1].source.kind = "Local"
    /\ profile_mods[2].enabled /\ profile_mods[2].source.kind = "Embedded"
    /\ dlFetched = {}
    /\ dlCache = dlCache0
    /\ Len(dlResults) = 2

Colliding(i, j) ==
    /\ i # j
    /\ profile_mods[i].enabled /\ profile_mods[j].enabled
    /\ profile_mods[i].source.kind = "Modrinth" /\ profile_mods[j].source.kind = "Modrinth"
    /\ profile_mods[i].source # profile_mods[j].source
    /\ profile_mods[i].source.file_name = profile_mods[j].source.file_name
    /\ dlCache0[profile_mods[i].source.file_name] = 0

\* position of task i in the results
ResultIndex(i) == CHOOSE k \in DOMAIN dlResults : dlResults[k].task = i

CollidingWith(i) == {j \in DOMAIN profile_mods : Colliding(i, j)}

Precedes(first, other) ==
    \A k \in DOMAIN apiEvents :
        apiEvents[k] = other => \E j \in 1..(k - 1) : apiEvents[j] = first

\* C25 (as claimed): every call reads the body before it tests the status
\* or parses, never returns a parsed result for a status outside 2xx, and
\* returns an error when a 2xx body does not decode.
Cx_C25_BodyReadFirst ==
    /\ Precedes("body", "status")
    /\ Precedes("body", "parse")
    /\ ~is_success(apiStatus) => apiResult # "parsed"
    /\ (apiPc = "returned" /\ is_success(apiStatus) /\ ~apiBodyDecodes) =>
           apiResult \notin {"none", "parsed"}

(***************************************************************************)
(* Claims about the order of the steps of sync_mods_to_profile             *)
(***************************************************************************)
\* C26: no copy is made while a removal is outstanding, and the copy loop
\* is reached only after every removal succeeded; the first failing remove
\* or copy ends the call with an error, after which nothing more is removed
\* or copied in that call; what was removed and copied before stays so.
Thm_C26_RemovalsFirstFailFast ==
    /\ [](/\ syncPc = "removing" => copied = {}
          /\ copied # {} => mods_to_remove = {}
          /\ syncPc \in {"adding", "ok"} =>
                 removed = ExistingFilenames(dir0) \ RequiredFilenames(target_mods)
          /\ syncPc = "ok" =>
                 copied = RequiredFilenames(target_mods) \ ExistingFilenames(dir0)
          /\ syncPc = "err" =>
                 /\ mods_to_remove # {} \/ mods_to_add # {}
                 /\ \A f \in removed : dir[f] = 0
                 /\ \A f \in copied : dir[f] # 0
                 /\ \A f \in FileNames \ (removed \cup copied) : dir[f] = dir0[f])
    /\ [][syncPc = "err" =>
             \/ syncPc' = "removing" /\ dir' = dir
             \/ UNCHANGED <<dir, removed, copied, mods_to_remove, mods_to_add>>]_vars

\* a sync failed at a copy after a removal and a copy: the directory holds
\* neither the old set of files nor the required set
Wit_C26_HalfSynced ==
    /\ syncPc = "err"
    /\ removed # {}
    /\ copied # {}
    /\ mods_to_add # {}
    /\ ExistingFilenames(dir) # ExistingFilenames(dir0)
    /\ ExistingFilenames(dir) # RequiredFilenames(target_mods)

(***************************************************************************)
(* Claims about the determinism of resolve_loader_version                  *)
(***************************************************************************)
\* C27: the result of resolve_loader_version is a function of its three
\* arguments: a call that has returned has the only result these arguments
\* can give, also when several wildcard entries or several literal prefixes
\* of by_minecraft match the Minecraft version with different versions.
Cx_C27_ResultFixedByArguments ==
    rlPc = "returned" =>
        \A r \in resolve_loader_version(rlProfile, rlMinecraft, rlPack) : r = rlResult


(***************************************************************************)
(* Claims about the tracking of launches                                   *)
(***************************************************************************)
\* C28: the process manager holds no entry of a finished launch: whenever a
\* launch_profile call has returned and the install task it spawned has
\* ended, the handle stored for the profile is not the handle of that task.
Cx_C28_NoStaleLaunchEntry ==
    \A k \in LaunchCalls :
        lpPc[k] = "returned" /\ lpTask[k] = "done" => launching_processes[lpId[k]] # k


(***************************************************************************)
(* Claims about a failed switch_modpack_version                            *)
(***************************************************************************)
\* the record the profile store holds for the profile
StoredProfile ==
    IF swSaved.some
    THEN [game_version |-> swSaved.game_version, mods |-> swSaved.mods]
    ELSE [game_version |-> swGame, mods |-> swProfile]

\* C29: when switch_modpack_version fails in the download, the processing
\* of the pack, the resolution of its entries or the extraction of the
\* overrides, update_profile was not called and the stored profile is the
\* record it was before the call; override files are on disk only if the
\* call reached the extraction.
Thm_C29_FailedSwitchKeepsStoredProfile ==
    swPc = "failed" /\ swFailedAt \in {"download_file", "process_pack",
                                        "extract_modpack_info", "extract_overrides"} =>
        /\ ~swSaved.some
        /\ StoredProfile = [game_version |-> swGame, mods |-> swProfile]
        /\ swOverridesOnDisk => swFailedAt = "extract_overrides"

\* the extraction failed after writing override files, and the local copy
\* the call had prepared differs from the stored record in the game version
\* and in the entry list
Wit_C29_ExtractionFailedFilesRemain ==
    /\ swPc = "failed"
    /\ swFailedAt = "extract_overrides"
    /\ swOverridesOnDisk
    /\ swLocalGame # swGame
    /\ swLocal # swProfile
    /\ StoredProfile = [game_version |-> swGame, mods |-> swProfile]


(***************************************************************************)
(* Claims about the termination of the override extraction and its permits *)
(***************************************************************************)
\* C30: under fair scheduling extract_curseforge_overrides returns; the
\* units that perform I/O are exactly the holders of a permit, one each, and
\* a unit writes only while it holds its permit; when the call has returned
\* the pool has as many free permits as it had before the call.
Cx_C30_ReturnsWithEveryPermitBack ==
    /\ <>(exPc \in {"ok", "err"})
    /\ [](io_semaphore + Cardinality(UnitsInIo) = io_permits)
    /\ [][\A u \in exDisk' \ exDisk : extraction_tasks[u] = "io"]_vars
    /\ [](exPc \in {"ok", "err"} => io_semaphore = io_permits)


====
